---------------------------- MODULE Spec2Model ----------------------------
(***************************************************************************)
(* A model of the directory packaging action of pkg5                       *)
(* (src/modules/actions/directory.py), of the file system it acts on, and  *)
(* of the plan engine that drives it.                                      *)
(*                                                                         *)
(* Strings the code takes apart (paths, modes) are sequences of one        *)
(* character strings: "/a/b" is <<"/", "a", "/", "b">>.                   *)
(***************************************************************************)
EXTENDS Integers, Sequences, FiniteSets, TLC

VARIABLES
    raw,      \* SpecPath: the raw path attribute handed to the constructor
    act,      \* the action under test: the constructor's result
    out,      \* SpecPath: the value returned by the last method call
    pc,       \* SpecPath: position of the caller
    fs,       \* the file system of the image: path (components) -> object
    env,      \* the platform: privilege, what chown does, read-only root
    salvage,  \* the calls of image.salvagedir, in order: <<localpath, ...>>
    saved,    \* the objects moved to the salvage area
    calls,    \* the lifecycle calls made so far, in order
    plan,     \* SpecEngine: the origin and destination action sequences
    order,    \* SpecEngine: the pairs in the order the engine applies them
    pos,      \* SpecEngine: how many pairs of order this run has applied
    rerun,    \* SpecEngine: the plan was interrupted and is run again
    fs0,      \* SpecEngine: the file system the plan was first started on
    result    \* SpecEngine: what the run returned, "none" while it runs

engineVars == <<plan, order, pos, rerun, fs0, result>>

vars == <<raw, act, out, pc, fs, env, salvage, saved, calls, engineVars>>

\* A value no attribute, object or result has (Python's None).
None == "None"

(***************************************************************************)
(* Strings                                                                 *)
(***************************************************************************)

\* os.path.sep on the platforms the action is run on.
sep == "/"

\* The characters of the paths that are enumerated: the separator and two
\* letters. No path has a "." or ".." component.
PathChars == {sep, "a", "b"}

\* The longest raw path that is enumerated.
MaxLen == 4

RawPaths == UNION {[1..n -> PathChars] : n \in 0..MaxLen}

\* Variant of Lstrip: only one leading separator is dropped.
Lstrip_one(s) == IF s # <<>> /\ Head(s) = sep THEN Tail(s) ELSE s

RECURSIVE Lstrip(_)
\* str.lstrip(os.path.sep): every leading separator is dropped.
Lstrip(s) ==
    IF s # <<>> /\ Head(s) = sep THEN Lstrip(Tail(s)) ELSE s

RECURSIVE Rstrip(_)
\* str.rstrip(os.path.sep): every trailing separator is dropped.
Rstrip(s) ==
    IF s # <<>> /\ s[Len(s)] = sep THEN Rstrip(SubSeq(s, 1, Len(s) - 1)) ELSE s

RECURSIVE SplitSep(_)
\* str.split("/"): the pieces between separators, empty pieces included.
SplitSep(s) ==
    IF \A i \in 1..Len(s) : s[i] # sep
    THEN <<s>>
    ELSE LET i == CHOOSE k \in 1..Len(s) :
                      s[k] = sep /\ \A j \in 1..(k - 1) : s[j] # sep
         IN  <<SubSeq(s, 1, i - 1)>> \o SplitSep(SubSeq(s, i + 1, Len(s)))

\* The non-empty pieces of a path, in order: what posixpath.normpath keeps of
\* a path without "." and ".." components.
Components(s) == SelectSeq(SplitSep(s), LAMBDA c : c # <<>>)

RECURSIVE JoinSep(_)
\* "/".join(comps)
JoinSep(comps) ==
    IF comps = <<>> THEN <<>>
    ELSE IF Len(comps) = 1 THEN comps[1]
    ELSE comps[1] \o <<sep>> \o JoinSep(Tail(comps))

\* posixpath.normpath on a path without "." and ".." components: empty pieces
\* go, one leading separator stays (exactly two leading separators stay two),
\* and the empty result is ".".
normpath(s) ==
    LET lead == IF s = <<>> \/ s[1] # sep THEN <<>>
                ELSE IF Len(s) >= 2 /\ s[2] = sep /\ (Len(s) = 2 \/ s[3] # sep)
                     THEN <<sep, sep>>
                     ELSE <<sep>>
        body == lead \o JoinSep(Components(s))
    IN  IF body = <<>> THEN <<".">> ELSE body

\* posixpath.basename: what follows the last separator.
basename(s) ==
    LET cut == {i \in 1..Len(s) : s[i] = sep}
        last == IF cut = {} THEN 0 ELSE CHOOSE i \in cut : \A j \in cut : j <= i
    IN  SubSeq(s, last + 1, Len(s))

(***************************************************************************)
(* DirectoryAction: construction, key, compare, generate_indices           *)
(***************************************************************************)

name == "dir"

\* Variant of key_attr: the mode is taken for the key.
key_attr_mode == "mode"

key_attr == "path"

\* Variant of globally_unique: the type is not declared unique.
globally_unique_false == FALSE

globally_unique == TRUE

\* DirectoryAction.__init__: attrs is a function from attribute names to
\* values. The result is the action, or the InvalidActionError raised.
DirectoryAction(attrs) ==
    IF "path" \in DOMAIN attrs
    THEN LET p == Lstrip(attrs["path"])
         IN  IF p = <<>>
             THEN [ok |-> FALSE, error |-> "InvalidActionError"]
             ELSE [ok |-> TRUE, name |-> name,
                   attrs |-> [k \in DOMAIN attrs |->
                                 IF k = "path" THEN p ELSE attrs[k]]]
    ELSE [ok |-> TRUE, name |-> name, attrs |-> attrs]

\* The key of an action: the value of its key attribute.
Key(a) == a.attrs[key_attr]

\* The characters of paths and hashes, in the order of their codes.
Alphabet ==
    <<"/", "_", "a", "b", "c", "d", "e", "f", "g", "h", "i", "j", "k", "l", "m",
      "n", "o", "p", "q", "r", "s", "t", "u", "v", "w", "x", "y", "z">>

Ord(c) == CHOOSE i \in DOMAIN Alphabet : Alphabet[i] = c

RECURSIVE cmp(_, _)
\* cmp(s, t) of two strings: -1, 0 or 1, by the first character that differs.
cmp(s, t) ==
    IF s = <<>> /\ t = <<>> THEN 0
    ELSE IF s = <<>> THEN -1
    ELSE IF t = <<>> THEN 1
    ELSE IF Ord(Head(s)) < Ord(Head(t)) THEN -1
    ELSE IF Ord(Head(s)) > Ord(Head(t)) THEN 1
    ELSE cmp(Tail(s), Tail(t))

\* DirectoryAction.compare
compare(a, other) == cmp(a.attrs["path"], other.attrs["path"])

\* Variant of SelfAfter: remove keeps the normalized path it computes in the
\* path attribute.
SelfAfter_norm(op, a) ==
    IF op = "remove"
    THEN [a EXCEPT !.attrs["path"] = normpath(a.attrs["path"])]
    ELSE a

\* The action after one of its methods (compare, install, verify, remove,
\* generate_indices) has run: none of them assigns an attribute.
SelfAfter(op, a) == a

\* Variant of directory_references: the last component instead of the path.
directory_references_basename(a) == <<basename(a.attrs["path"])>>

\* DirectoryAction.directory_references
directory_references(a) == <<normpath(a.attrs["path"])>>

\* Variant of generate_indices: the basename is taken without rstrip.
generate_indices_norstrip(a) ==
    << <<"directory", "basename", basename(a.attrs["path"]), None>>,
       <<"directory", "path", <<sep>> \o a.attrs["path"], None>> >>

\* DirectoryAction.generate_indices
generate_indices(a) ==
    << <<"directory", "basename", basename(Rstrip(a.attrs["path"])), None>>,
       <<"directory", "path", <<sep>> \o a.attrs["path"], None>> >>

(***************************************************************************)
(* SpecPath: one action is constructed from a raw path and its pure        *)
(* methods are called.                                                     *)
(***************************************************************************)

\* Values of the variables a specification makes no use of.
NoFs == <<>>
NoEnv == [is_admin |-> FALSE, chown |-> "ok", rofs |-> FALSE]

\* No action: the origin of a fresh install.
NoAction == [ok |-> FALSE]

NoPlan == [origin |-> <<>>, dest |-> <<>>]

NoEngine ==
    /\ plan = NoPlan /\ order = <<>> /\ pos = 0 /\ rerun = FALSE
    /\ fs0 = NoFs /\ result = "none"

InitPath ==
    /\ raw \in RawPaths
    /\ act = NoAction
    /\ out = <<>>
    /\ pc = "new"
    /\ fs = NoFs /\ env = NoEnv /\ salvage = <<>> /\ saved = {} /\ calls = <<>>
    /\ NoEngine

Construct ==
    /\ pc = "new"
    /\ act' = DirectoryAction([path |-> raw])
    /\ pc' = IF act'.ok THEN "built" ELSE "raised"
    /\ UNCHANGED <<raw, out, fs, env, salvage, saved, calls, engineVars>>

CallGenerateIndices ==
    /\ pc = "built"
    /\ out' = generate_indices(act)
    /\ pc' = "indexed"
    /\ UNCHANGED <<raw, act, fs, env, salvage, saved, calls, engineVars>>

NextPath == Construct \/ CallGenerateIndices

SpecPath == InitPath /\ [][NextPath]_vars

(***************************************************************************)
(* misc.hash_file_name: the place of a content hash in the content store   *)
(***************************************************************************)

\* f[lo:hi] of a string: the characters from position lo (counted from 0) up
\* to, not including, position hi, as far as the string goes.
Slice(f, lo, hi) == SubSeq(f, lo + 1, IF hi < Len(f) THEN hi ELSE Len(f))

\* posixpath.join(a, b): b alone when it starts with a separator, else a and
\* b with one separator between them unless a is empty or ends with one.
join(a, b) ==
    IF b # <<>> /\ Head(b) = sep THEN b
    ELSE IF a = <<>> \/ a[Len(a)] = sep THEN a \o b
    ELSE a \o <<sep>> \o b

\* Variant of hash_file_name: the second level has four characters.
hash_file_name_short(f) == join(join(Slice(f, 0, 2), Slice(f, 2, 6)), f)

\* misc.hash_file_name(f): os.path.join(f[0:2], f[2:8], f)
hash_file_name(f) == join(join(Slice(f, 0, 2), Slice(f, 2, 8)), f)

\* The longest hash that is enumerated.
MaxHashLen == 9

\* The characters of the enumerated hashes; the separator is one of them.
HashChars == {sep, "a", "b"}

\* The hash misc.py prints when it is run as a program.
ExampleHash ==
    <<"a", "b", "c", "d", "e", "f", "g", "h", "i", "j", "k", "l", "m", "n",
      "o", "p", "q", "r", "s", "t", "u", "v", "w", "x", "y", "z">>

Hashes == UNION {[1..n -> HashChars] : n \in 0..MaxHashLen} \cup {ExampleHash}

InitShard ==
    /\ raw \in Hashes
    /\ out = <<>> /\ pc = "hash"
    /\ act = NoAction
    /\ fs = NoFs /\ env = NoEnv /\ salvage = <<>> /\ saved = {} /\ calls = <<>>
    /\ NoEngine

CallHashFileName ==
    /\ pc = "hash"
    /\ out' = hash_file_name(raw)
    /\ pc' = "hashed"
    /\ UNCHANGED <<raw, act, fs, env, salvage, saved, calls, engineVars>>

NextShard == CallHashFileName

SpecShard == InitShard /\ [][NextShard]_vars

(***************************************************************************)
(* The file system and the platform                                        *)
(***************************************************************************)

\* stat.S_IWUSR, 0200
S_IWUSR == 128

\* mode | stat.S_IWUSR
OrWUSR(m) == IF (m \div S_IWUSR) % 2 = 1 THEN m ELSE m + S_IWUSR

OctDigits == {"0", "1", "2", "3", "4", "5", "6", "7"}

DigitVal(c) ==
    CASE c = "0" -> 0 [] c = "1" -> 1 [] c = "2" -> 2 [] c = "3" -> 3
      [] c = "4" -> 4 [] c = "5" -> 5 [] c = "6" -> 6 [] c = "7" -> 7

RECURSIVE OctVal(_)
OctVal(s) ==
    IF s = <<>> THEN 0
    ELSE 8 * OctVal(SubSeq(s, 1, Len(s) - 1)) + DigitVal(s[Len(s)])

\* int(self.attrs.get("mode", None), 8): the number, or the exception raised
\* (TypeError for a missing attribute, ValueError for a string that is not
\* octal).
ParseMode(a) ==
    IF "mode" \notin DOMAIN a.attrs THEN [ok |-> FALSE, error |-> "TypeError"]
    ELSE LET v == a.attrs["mode"]
         IN  IF v = <<>> \/ \E i \in 1..Len(v) : v[i] \notin OctDigits
             THEN [ok |-> FALSE, error |-> "ValueError"]
             ELSE [ok |-> TRUE, value |-> OctVal(v)]

\* The uid and gid of the calling process: portable.is_admin() is uid 0.
ProcessId(e) == IF e.is_admin THEN 0 ELSE 100

\* The attributes of the objects the image holds before the first call.
OldAttrs == [mode |-> 448, uid |-> 7, gid |-> 7]

\* Action.get_fsobj_uid_gid: the image resolves the owner and group names.
NameId(n) == IF n = "root" THEN 0 ELSE 2

get_fsobj_uid_gid(a) == <<NameId(a.attrs["owner"]), NameId(a.attrs["group"])>>

\* Action.validate_fsobj_common: the deferred attribute checks.
validate_fsobj_common(a) ==
    IF ParseMode(a).ok THEN "ok" ELSE "ActionValidationError"

\* Variant of validate: every action passes.
validate_pass(a) == "ok"

\* DirectoryAction.validate
validate(a) == validate_fsobj_common(a)

IsPrefix(p, q) == Len(p) <= Len(q) /\ SubSeq(q, 1, Len(p)) = p

IsProperPrefix(p, q) == Len(p) < Len(q) /\ IsPrefix(p, q)

Exists(f, p) == p \in DOMAIN f

\* Variant of isdir: any object at the path counts.
isdir_any(f, p) == Exists(f, p)

\* os.path.isdir
isdir(f, p) == Exists(f, p) /\ f[p].kind = "dir"

HasChildren(f, p) == \E q \in DOMAIN f : IsProperPrefix(p, q)

Without(f, dead) == [q \in (DOMAIN f) \ dead |-> f[q]]

\* The deepest prefix of p that the file system holds.
DeepestExisting(f, p) ==
    LET n == CHOOSE k \in 0..Len(p) :
                 /\ Exists(f, SubSeq(p, 1, k))
                 /\ \A j \in (k + 1)..Len(p) : ~Exists(f, SubSeq(p, 1, j))
    IN  SubSeq(p, 1, n)

\* Action.makedirs(path, mode=mode): the leaf is made with the mode asked for,
\* the missing directories above it with the attributes of the deepest
\* directory there is. rofsWins says which of the two errors the platform
\* reports for an existing path on a read-only file system.
makedirs(f, e, p, mode, rofsWins) ==
    LET top == DeepestExisting(f, p)
        new == {SubSeq(p, 1, k) : k \in (Len(top) + 1)..Len(p)}
    IN  IF Exists(f, p)
        THEN [fs |-> f, err |-> IF e.rofs /\ rofsWins THEN "EROFS" ELSE "EEXIST"]
        ELSE IF e.rofs THEN [fs |-> f, err |-> "EROFS"]
        ELSE IF f[top].kind # "dir" THEN [fs |-> f, err |-> "ENOTDIR"]
        ELSE [fs |-> [q \in (DOMAIN f) \cup new |->
                        IF q \in DOMAIN f THEN f[q]
                        ELSE IF q = p
                             THEN [kind |-> "dir", mode |-> mode,
                                   uid |-> ProcessId(e), gid |-> ProcessId(e)]
                             ELSE [kind |-> "dir", mode |-> f[top].mode,
                                   uid |-> f[top].uid, gid |-> f[top].gid]],
              err |-> "ok"]

\* os.chmod
chmod(f, e, p, mode) ==
    IF ~Exists(f, p) THEN [fs |-> f, err |-> "ENOENT"]
    ELSE IF e.rofs THEN [fs |-> f, err |-> "EROFS"]
    ELSE [fs |-> [f EXCEPT ![p].mode = mode], err |-> "ok"]

\* portable.chown: e.chown is what the platform answers to a change of owner.
chown(f, e, p, uid, gid) ==
    IF ~Exists(f, p) THEN [fs |-> f, err |-> "ENOENT"]
    ELSE IF e.rofs THEN [fs |-> f, err |-> "EROFS"]
    ELSE IF e.chown # "ok" THEN [fs |-> f, err |-> e.chown]
    ELSE [fs |-> [f EXCEPT ![p].uid = uid, ![p].gid = gid], err |-> "ok"]

\* os.rmdir: nonEmptyErr is the error the platform reports for a directory
\* that still has entries.
rmdir(f, e, p, nonEmptyErr) ==
    IF ~Exists(f, p) THEN [fs |-> f, err |-> "ENOENT"]
    ELSE IF e.rofs THEN [fs |-> f, err |-> "EROFS"]
    ELSE IF f[p].kind # "dir" THEN [fs |-> f, err |-> "ENOTDIR"]
    ELSE IF HasChildren(f, p) THEN [fs |-> f, err |-> nonEmptyErr]
    ELSE [fs |-> Without(f, {p}), err |-> "ok"]

\* The paths at and below p.
Subtree(f, p) == {q \in DOMAIN f : IsPrefix(p, q)}

\* image.salvagedir(localpath): the directory and what it holds are moved to
\* the salvage area.
salvagedir(f, p) == Without(f, Subtree(f, p))

(***************************************************************************)
(* DirectoryAction: install and remove                                     *)
(***************************************************************************)

\* What a lifecycle call returns: the file system it leaves, "ok" or the
\* exception raised, the platform calls made, and the paths handed to
\* image.salvagedir, both in order.
Ret(f, res, ops, salv) == [fs |-> f, res |-> res, ops |-> ops, salv |-> salv]

\* One platform call: its name, the path, the mode or <<uid, gid>> passed,
\* and the error it ended with.
Op(call, p, arg, err) == [call |-> call, path |-> p, arg |-> arg, err |-> err]

\* os.path.normpath(os.path.sep.join((image.get_root(), p))), as the
\* components below the image root: the file system is indexed by them.
Locate(p) == Components(normpath(p))

\* Variant of CreateMode: the mode of the attribute is used as it is.
CreateMode_plain(e, m) == m

\* if not portable.is_admin(): mode |= stat.S_IWUSR
CreateMode(e, m) == IF e.is_admin THEN m ELSE OrWUSR(m)

\* Variant of IsFresh: the directory is made whether or not there is an origin.
IsFresh_always(o) == TRUE

\* if not orig: the directory is made only when there is no origin action
IsFresh(o) == ~o.ok

\* Variant of MakedirsTolerated: EEXIST is raised like any other error.
MakedirsTolerated_none(err) == FALSE

\* The errors of makedirs that install does not raise: except OSError, e:
\* ... if e.errno != errno.EEXIST: raise
MakedirsTolerated(err) == err = "EEXIST"

\* Variant of NeedChmod: the mode is applied on every update.
NeedChmod_always(mode, omode) == TRUE

\* elif mode != omode: the existing directory gets the new mode
NeedChmod(mode, omode) == mode # omode

\* Variant of NeedChown: the owner is set on every install.
NeedChown_always(o, ids) == TRUE

\* if not orig or oowner != owner or ogroup != group
NeedChown(o, ids) == ~o.ok \/ get_fsobj_uid_gid(o) # ids

\* Variant of ChownTolerated: ENOSYS is raised.
ChownTolerated_eperm(err) == err = "EPERM"

\* The errors of portable.chown that install does not raise.
ChownTolerated(err) == err \in {"EPERM", "ENOSYS"}

\* DirectoryAction.install(pkgplan, orig), from mode |= S_IWUSR on: m is the
\* parsed mode, o the origin action or NoAction.
InstallBody(f, e, a, o, m, rofsWins) ==
    LET ids == get_fsobj_uid_gid(a)
        path == Locate(a.attrs["path"])
        mode == CreateMode(e, m)
        mk == makedirs(f, e, path, mode, rofsWins)
        mkOp == <<Op("makedirs", path, mode, mk.err)>>
        ch == chmod(f, e, path, mode)
        chOp == <<Op("chmod", path, mode, ch.err)>>
        \* the file system and the calls up to the change of owner
        mid == IF IsFresh(o) THEN [fs |-> mk.fs, ops |-> mkOp]
               ELSE IF NeedChmod(mode, ParseMode(o).value)
                    THEN [fs |-> ch.fs, ops |-> chOp]
                    ELSE [fs |-> f, ops |-> <<>>]
        own == chown(mid.fs, e, path, ids[1], ids[2])
        ownOp == <<Op("chown", path, ids, own.err)>>
    IN  IF IsFresh(o) /\ mk.err = "EROFS"
        THEN IF isdir(f, path) THEN Ret(f, "ok", mkOp, <<>>)
             ELSE Ret(f, "EROFS", mkOp, <<>>)
        ELSE IF IsFresh(o) /\ mk.err # "ok" /\ ~MakedirsTolerated(mk.err)
        THEN Ret(f, mk.err, mkOp, <<>>)
        ELSE IF ~IsFresh(o) /\ NeedChmod(mode, ParseMode(o).value)
                /\ ch.err # "ok"
        THEN Ret(f, ch.err, chOp, <<>>)
        ELSE IF NeedChown(o, ids)
        THEN IF own.err = "ok" \/ ChownTolerated(own.err)
             THEN Ret(own.fs, "ok", mid.ops \o ownOp, <<>>)
             ELSE Ret(mid.fs, own.err, mid.ops \o ownOp, <<>>)
        ELSE Ret(mid.fs, "ok", mid.ops, <<>>)

\* DirectoryAction.install(pkgplan, orig)
install(f, e, a, o, rofsWins) ==
    LET pm == ParseMode(a)
    IN  IF ~pm.ok /\ validate(a) # "ok"
        THEN Ret(f, validate(a), <<>>, <<>>)
        ELSE IF o.ok /\ ~ParseMode(o).ok /\ validate(o) # "ok"
        THEN Ret(f, validate(o), <<>>, <<>>)
        ELSE IF ~pm.ok \/ (o.ok /\ ~ParseMode(o).ok)
        THEN \* validate let an unparsable mode pass: mode is None (omode
             \* unbound) where it is used
             Ret(f, "TypeError", <<>>, <<>>)
        ELSE InstallBody(f, e, a, o, pm.value, rofsWins)

\* Variant of SalvageErr: EEXIST is not taken for a non-empty directory.
SalvageErr_notempty(err) == err = "ENOTEMPTY"

\* The errors of os.rmdir for which remove hands the directory to salvage.
SalvageErr(err) == err \in {"EEXIST", "ENOTEMPTY"}

\* Variant of RmdirIgnored: EACCES is raised like any other error.
RmdirIgnored_none(err) == FALSE

\* elif e.errno != errno.EACCES: raise ("this happens on Windows")
RmdirIgnored(err) == err = "EACCES"

\* Variant of RmdirGone: ENOENT is raised like any other error.
RmdirGone_none(err) == FALSE

\* if e.errno == errno.ENOENT: pass
RmdirGone(err) == err = "ENOENT"

\* DirectoryAction.remove(pkgplan)
remove(f, e, a, nonEmptyErr) ==
    LET localpath == normpath(a.attrs["path"])
        path == Locate(localpath)
        rm == rmdir(f, e, path, nonEmptyErr)
        rmOp == <<Op("rmdir", path, 0, rm.err)>>
    IN  IF rm.err = "ok" THEN Ret(rm.fs, "ok", rmOp, <<>>)
        ELSE IF RmdirGone(rm.err) THEN Ret(f, "ok", rmOp, <<>>)
        ELSE IF SalvageErr(rm.err)
        THEN Ret(salvagedir(f, Locate(localpath)), "ok", rmOp, <<localpath>>)
        ELSE IF ~RmdirIgnored(rm.err) THEN Ret(f, rm.err, rmOp, <<>>)
        ELSE Ret(f, "ok", rmOp, <<>>)

\* Action.verify_fsobj_common(img, ftype): what differs between the object
\* on disk and the attributes of the action. A missing object is an entry of
\* the error list, no exception.
verify_fsobj_common(f, a, ftype) ==
    LET path == Locate(a.attrs["path"])
        ids == get_fsobj_uid_gid(a)
    IN  IF ~Exists(f, path) THEN {"missing"}
        ELSE IF f[path].kind # ftype THEN {"type"}
        ELSE (IF ParseMode(a).ok /\ f[path].mode # ParseMode(a).value
              THEN {"mode"} ELSE {})
             \cup (IF f[path].uid # ids[1] THEN {"owner"} ELSE {})
             \cup (IF f[path].gid # ids[2] THEN {"group"} ELSE {})

\* DirectoryAction.verify(img): the error list.
verify(f, a) == verify_fsobj_common(f, a, "dir")

\* The objects a call moved to the salvage area.
Moved(f, r) ==
    {[from |-> q, obj |-> f[q]] : q \in (DOMAIN f) \ (DOMAIN r.fs)}

(***************************************************************************)
(* SpecAction: lifecycle calls of one directory action on one image        *)
(***************************************************************************)

\* The most lifecycle calls made on the action.
MaxCalls == 2

Envs ==
    {e \in [is_admin : BOOLEAN, chown : {"ok", "EPERM", "ENOSYS", "EIO"},
            rofs : BOOLEAN] : e.rofs => e.chown = "ok"}

\* The paths of the actions whose lifecycle is run: one and two components,
\* a leading, a trailing and a doubled separator.
ActionPaths ==
    {<<"a">>, <<"/", "a", "/", "b">>, <<"a", "/", "b", "/">>,
     <<"a", "/", "/", "b">>}

ValidModes == {<<"0", "7", "5", "5">>, <<"0", "5", "5", "5">>}
BadModes == {<<"0", "9", "5", "5">>}
Owners == {"root", "bin"}
Groups == {"bin", "root"}

\* The attribute sets the action under test is constructed from: owned by
\* bin, so that ownership is not that of the calling process.
ActionAttrs ==
    {[path |-> p, mode |-> m, owner |-> "bin", group |-> "bin"] :
        p \in ActionPaths, m \in ValidModes \cup BadModes}
    \cup {[path |-> p, owner |-> "bin", group |-> "bin"] : p \in ActionPaths}

Other(x, S) == CHOOSE y \in S : y # x

\* The origin actions an update of a is called with: the same attributes, and
\* one with another mode, owner or group, with a mode that does not parse,
\* or with no mode.
Origs(a) ==
    LET m == IF "mode" \in DOMAIN a.attrs /\ a.attrs["mode"] \in ValidModes
             THEN a.attrs["mode"] ELSE CHOOSE v \in ValidModes : TRUE
        same == [path |-> a.attrs["path"], mode |-> m,
                 owner |-> a.attrs["owner"], group |-> a.attrs["group"]]
    IN  {DirectoryAction(x) : x \in
            {same,
             [same EXCEPT !["mode"] = Other(m, ValidModes)],
             [same EXCEPT !["owner"] = Other(same["owner"], Owners)],
             [same EXCEPT !["group"] = Other(same["group"], Groups)],
             [same EXCEPT !["mode"] = CHOOSE v \in BadModes : TRUE],
             [k \in {"path", "owner", "group"} |-> same[k]]}}

Dir(mode, uid, gid) == [kind |-> "dir", mode |-> mode, uid |-> uid, gid |-> gid]
OldDir == Dir(OldAttrs.mode, OldAttrs.uid, OldAttrs.gid)
OldFile == [kind |-> "file", mode |-> OldAttrs.mode, uid |-> OldAttrs.uid,
            gid |-> OldAttrs.gid]

\* The name of a file no package delivers.
Untracked == <<"u">>

\* The image root alone: a directory of the calling user.
RootOnly(e) == (<<>> :> Dir(493, ProcessId(e), ProcessId(e)))

Ancestors(t) == {SubSeq(t, 1, k) : k \in 1..(Len(t) - 1)}

\* The images the first call may find, for the target path t: nothing, the
\* directories above t, t as an empty directory, t holding a file no package
\* delivers, and t as a regular file.
InitialFs(t, e) ==
    LET above == RootOnly(e) @@ [q \in Ancestors(t) |-> OldDir]
    IN  {RootOnly(e),
         above,
         above @@ (t :> OldDir),
         above @@ (t :> OldDir) @@ (Append(t, Untracked) :> OldFile),
         above @@ (t :> OldFile)}

\* raw is the path attribute the action under test was constructed from.
InitAction ==
    /\ env \in Envs
    /\ \E x \in ActionAttrs : raw = x["path"] /\ act = DirectoryAction(x)
    /\ fs \in InitialFs(Locate(act.attrs["path"]), env)
    /\ salvage = <<>> /\ saved = {} /\ calls = <<>>
    /\ out = <<>> /\ pc = "action"
    /\ NoEngine

\* The record of a call: the method, the action it was called on, the origin
\* or other action passed, the file system it found, what it raised, the
\* platform calls and salvage calls it made, and the value it returned.
Call(op, o, r, val) ==
    [op |-> op, self |-> act, orig |-> o, pre |-> fs, res |-> r.res,
     ops |-> r.ops, salv |-> r.salv, val |-> val]

CallInstall ==
    /\ pc = "action" /\ Len(calls) < MaxCalls
    /\ \E o \in {NoAction} \cup Origs(act), rofsWins \in BOOLEAN :
          LET r == install(fs, env, act, o, rofsWins)
          IN  /\ fs' = r.fs
              /\ calls' = Append(calls, Call("install", o, r, None))
    /\ act' = SelfAfter("install", act)
    /\ UNCHANGED <<raw, out, pc, env, salvage, saved, engineVars>>

CallRemove ==
    /\ pc = "action" /\ Len(calls) < MaxCalls
    /\ \E nonEmptyErr \in {"ENOTEMPTY", "EEXIST", "EACCES"} :
          LET r == remove(fs, env, act, nonEmptyErr)
          IN  /\ fs' = r.fs
              /\ salvage' = salvage \o r.salv
              /\ saved' = saved \cup Moved(fs, r)
              /\ calls' = Append(calls, Call("remove", NoAction, r, None))
    /\ act' = SelfAfter("remove", act)
    /\ UNCHANGED <<raw, out, pc, env, engineVars>>

\* verify(img) changes nothing on disk and returns the error list.
CallVerify ==
    /\ pc = "action" /\ Len(calls) < MaxCalls
    /\ calls' = Append(calls, Call("verify", NoAction,
                                   Ret(fs, "ok", <<>>, <<>>), verify(fs, act)))
    /\ act' = SelfAfter("verify", act)
    /\ UNCHANGED <<raw, out, pc, fs, env, salvage, saved, engineVars>>

\* The actions the action under test is compared with: one of each path.
Others ==
    {DirectoryAction([path |-> p, mode |-> CHOOSE v \in ValidModes : TRUE,
                      owner |-> "root", group |-> "bin"]) : p \in ActionPaths}

\* compare and generate_indices read the action only; they are the last
\* call made on it.
CallCompare ==
    /\ pc = "action" /\ Len(calls) < MaxCalls
    /\ \E other \in Others :
          calls' = Append(calls, Call("compare", other,
                                      Ret(fs, "ok", <<>>, <<>>),
                                      compare(act, other)))
    /\ act' = SelfAfter("compare", act)
    /\ pc' = "queried"
    /\ UNCHANGED <<raw, out, fs, env, salvage, saved, engineVars>>

CallIndices ==
    /\ pc = "action" /\ Len(calls) < MaxCalls
    /\ calls' = Append(calls, Call("generate_indices", NoAction,
                                   Ret(fs, "ok", <<>>, <<>>),
                                   generate_indices(act)))
    /\ act' = SelfAfter("generate_indices", act)
    /\ pc' = "queried"
    /\ UNCHANGED <<raw, out, fs, env, salvage, saved, engineVars>>

NextAction ==
    CallInstall \/ CallRemove \/ CallVerify \/ CallCompare \/ CallIndices

SpecAction == InitAction /\ [][NextAction]_vars

(***************************************************************************)
(* SpecEngine: the reconciliation engine applies a plan to an image, may   *)
(* be interrupted between two lifecycle calls, and is then run again from  *)
(* the start with the same plan.                                           *)
(***************************************************************************)

\* The most actions in the origin and in the destination manifest.
MaxActions == 3

\* The actions manifests are written from, in manifest order. The first two
\* have the same key once constructed.
Catalog ==
    << DirectoryAction([path |-> <<"a">>, mode |-> <<"0", "7", "5", "5">>,
                        owner |-> "root", group |-> "bin"]),
       DirectoryAction([path |-> <<"/", "a">>, mode |-> <<"0", "5", "5", "5">>,
                        owner |-> "bin", group |-> "bin"]),
       DirectoryAction([path |-> <<"a", "/", "b">>,
                        mode |-> <<"0", "7", "5", "5">>,
                        owner |-> "root", group |-> "bin"]),
       DirectoryAction([path |-> <<"b">>, mode |-> <<"0", "5", "5", "5">>,
                        owner |-> "root", group |-> "bin"]) >>

RECURSIVE PickFrom(_, _)
\* The actions of Catalog at the positions I, from position k on.
PickFrom(k, I) ==
    IF k > Len(Catalog) THEN <<>>
    ELSE (IF k \in I THEN <<Catalog[k]>> ELSE <<>>) \o PickFrom(k + 1, I)

Manifests ==
    {PickFrom(1, I) : I \in {J \in SUBSET (1..Len(Catalog)) :
                                Cardinality(J) <= MaxActions}}

\* An action's type and key: what pairs are grouped by.
TypeKey(a) == <<a.name, Key(a)>>

Keys(m) == {TypeKey(m[i]) : i \in DOMAIN m}

\* The first action of manifest m with type and key k, or NoAction.
Find(m, k) ==
    IF k \in Keys(m)
    THEN m[CHOOSE i \in DOMAIN m :
               TypeKey(m[i]) = k /\ \A j \in 1..(i - 1) : TypeKey(m[j]) # k]
    ELSE NoAction

\* Steps 1 and 2: the actions of both manifests, grouped by type and key.
Pairs(pl) ==
    {[id |-> k, orig |-> Find(pl.origin, k), dest |-> Find(pl.dest, k)] :
        k \in Keys(pl.origin) \cup Keys(pl.dest)}

\* Step 3.
Classify(p) ==
    IF ~p.orig.ok THEN "install"
    ELSE IF ~p.dest.ok THEN "remove"
    ELSE "update"

\* Step 4: two actions of a globally unique type with the same key.
UniquenessViolation(m) ==
    \E i, j \in DOMAIN m :
        i < j /\ globally_unique /\ TypeKey(m[i]) = TypeKey(m[j])

\* The file variant of the action contract: a path-bearing action whose
\* path is normalized as a directory's is.
FileAction(attrs) ==
    LET d == DirectoryAction(attrs)
    IN  IF d.ok THEN [d EXCEPT !.name = "file"] ELSE d

\* posixpath.dirname of a normalized relative path.
dirname(s) == JoinSep(SubSeq(Components(s), 1, Len(Components(s)) - 1))

\* The directory a file action declares: the one its path is in.
file_directory_references(a) == <<dirname(normpath(a.attrs["path"]))>>

\* install of a file action: the staged content is put at the path as a
\* regular file with the mode and the owner declared; the directory it goes
\* into has to be there.
file_install(f, e, a) ==
    LET path == Locate(a.attrs["path"])
        parent == SubSeq(path, 1, Len(path) - 1)
        ids == get_fsobj_uid_gid(a)
        new == [kind |-> "file", mode |-> ParseMode(a).value,
                uid |-> ProcessId(e), gid |-> ProcessId(e)]
        put == (path :> new) @@ f
        own == chown(put, e, path, ids[1], ids[2])
        ops == <<Op("open", path, new.mode, "ok"),
                 Op("chown", path, ids, own.err)>>
    IN  IF validate(a) # "ok" THEN Ret(f, validate(a), <<>>, <<>>)
        ELSE IF ~isdir(f, parent)
        THEN Ret(f, "ENOENT", <<Op("open", path, new.mode, "ENOENT")>>, <<>>)
        ELSE IF own.err = "ok" \/ ChownTolerated(own.err)
        THEN Ret(own.fs, "ok", ops, <<>>)
        ELSE Ret(put, own.err, ops, <<>>)

\* remove of a file action: the file is unlinked; a file that is gone is no
\* error.
file_remove(f, e, a) ==
    LET path == Locate(a.attrs["path"])
    IN  IF ~Exists(f, path)
        THEN Ret(f, "ok", <<Op("unlink", path, 0, "ENOENT")>>, <<>>)
        ELSE Ret(Without(f, {path}), "ok",
                 <<Op("unlink", path, 0, "ok")>>, <<>>)

\* generate_indices of a file action: the same two fields as a directory's,
\* in the file domain.
file_generate_indices(a) ==
    << <<"file", "basename", basename(Rstrip(a.attrs["path"])), None>>,
       <<"file", "path", <<sep>> \o a.attrs["path"], None>> >>

\* The methods of the contract, by the variant of the action.
Install(f, e, a, o, rofsWins) ==
    IF a.name = "file" THEN file_install(f, e, a)
    ELSE install(f, e, a, o, rofsWins)

Remove(f, e, a, nonEmptyErr) ==
    IF a.name = "file" THEN file_remove(f, e, a)
    ELSE remove(f, e, a, nonEmptyErr)

Indices(a) ==
    IF a.name = "file" THEN file_generate_indices(a) ELSE generate_indices(a)

\* The directory an action declares, as components.
Ref(a) ==
    Components((IF a.name = "file" THEN file_directory_references(a)
                ELSE directory_references(a))[1])

\* Directory action d is the directory action x is in, or one above it.
Holds(d, x) ==
    /\ d.name = "dir"
    /\ IF x.name = "dir" THEN IsProperPrefix(Ref(d), Ref(x))
       ELSE IsPrefix(Ref(d), Ref(x))

\* Step 5: pair q is applied before pair p. A directory is removed after
\* what is inside it, and installed before what is inside it.
Before(q, p) ==
    \/ /\ Classify(p) = "remove" /\ Classify(q) = "remove"
       /\ Holds(p.orig, q.orig)
    \/ /\ Classify(p) # "remove" /\ Classify(q) # "remove"
       /\ Holds(q.dest, p.dest)

DoneIds == {order[i] : i \in 1..pos}

\* The pairs the engine may apply next: the next of the order when the plan
\* is run again, else any pair whose predecessors are applied.
NextPairs ==
    IF pos < Len(order)
    THEN {p \in Pairs(plan) : p.id = order[pos + 1]}
    ELSE {p \in Pairs(plan) :
             /\ p.id \notin DoneIds
             /\ \A q \in Pairs(plan) : Before(q, p) => q.id \in DoneIds}

\* Step 6: the lifecycle call of a pair.
ApplyPair(f, e, p) ==
    IF Classify(p) = "remove" THEN Remove(f, e, p.orig, e.nonempty)
    ELSE Install(f, e, p.dest, p.orig, TRUE)

\* Variant of Collected: the tuples of a removed action are collected too.
Collected_all(p) ==
    LET a == IF p.dest.ok THEN p.dest ELSE p.orig
        t == Indices(a)
    IN  {[action |-> a, tuple |-> t[i]] : i \in DOMAIN t}

\* Step 7: the index tuples collected when a pair is applied.
Collected(p) ==
    IF Classify(p) = "remove" THEN {}
    ELSE LET t == Indices(p.dest)
         IN  {[action |-> p.dest, tuple |-> t[i]] : i \in DOMAIN t}

RECURSIVE InstallAll(_, _, _)
\* The image after the actions of manifest m were installed in order.
InstallAll(f, e, m) ==
    IF m = <<>> THEN f
    ELSE InstallAll(install(f, e, m[1], NoAction, TRUE).fs, e, Tail(m))

\* The platforms the engine runs on: the root is writable, and a directory
\* that is not empty is reported with ENOTEMPTY or, on Windows, EACCES.
EngineEnvs ==
    [is_admin : BOOLEAN, chown : {"ok", "EPERM", "EIO"}, rofs : {FALSE},
     nonempty : {"ENOTEMPTY", "EACCES"}]

\* The images a plan is started on: an empty one, one on which the origin
\* manifest was installed, and that one with a file no package delivers in
\* each directory of the origin manifest.
EngineFs(m, e) ==
    LET inst == InstallAll(RootOnly(e), [e EXCEPT !.chown = "ok"], m)
        extra == {Append(Ref(m[i]), Untracked) : i \in DOMAIN m}
    IN  {RootOnly(e), inst, inst @@ [q \in extra |-> OldFile]}

InitEngine ==
    /\ env \in EngineEnvs
    /\ \E o \in Manifests, d \in Manifests :
          /\ ~UniquenessViolation(o)
          /\ plan = [origin |-> o, dest |-> d]
    /\ fs \in EngineFs(plan.origin, env)
    /\ fs0 = fs
    /\ pc = "check" /\ order = <<>> /\ pos = 0 /\ rerun = FALSE
    /\ result = "none" /\ out = {}
    /\ salvage = <<>> /\ saved = {} /\ calls = <<>>
    /\ raw = <<>> /\ act = NoAction

\* Step 4: the plan is rejected before any lifecycle call.
Check ==
    /\ pc = "check"
    /\ IF UniquenessViolation(plan.dest)
       THEN pc' = "rejected" /\ result' = "UniquenessViolation"
       ELSE pc' = "apply" /\ result' = "none"
    /\ UNCHANGED <<raw, act, out, fs, env, salvage, saved, calls, plan, order,
                   pos, rerun, fs0>>

\* Variant of StepPc: the engine goes on after a call that failed.
StepPc_continue(res) == "apply"

\* Step 6: the engine stops at the first lifecycle call that fails.
StepPc(res) == IF res = "ok" THEN "apply" ELSE "failed"

\* Steps 5 to 7 for one pair.
Apply(p) ==
    LET r == ApplyPair(fs, env, p)
    IN  /\ fs' = r.fs
        /\ salvage' = salvage \o r.salv
        /\ saved' = saved \cup Moved(fs, r)
        /\ calls' = Append(calls, [op |-> Classify(p), id |-> p.id,
                                   pre |-> fs, res |-> r.res])
        /\ order' = IF pos < Len(order) THEN order ELSE Append(order, p.id)
        /\ pos' = pos + 1
        /\ pc' = StepPc(r.res)
        /\ IF r.res = "ok"
           THEN result' = "none" /\ out' = out \cup Collected(p)
           ELSE result' = r.res /\ out' = out
        /\ UNCHANGED <<raw, act, env, plan, rerun, fs0>>

ApplyInstall ==
    /\ pc = "apply"
    /\ \E p \in NextPairs : Classify(p) # "remove" /\ Apply(p)

ApplyRemove ==
    /\ pc = "apply"
    /\ \E p \in NextPairs : Classify(p) = "remove" /\ Apply(p)

Finish ==
    /\ pc = "apply" /\ pos = Cardinality(Pairs(plan))
    /\ pc' = "done" /\ result' = "ok"
    /\ UNCHANGED <<raw, act, out, fs, env, salvage, saved, calls, plan, order,
                   pos, rerun, fs0>>

\* The run is interrupted between two lifecycle calls and the same plan is
\* started again on the file system as it is.
Interrupt ==
    /\ pc = "apply" /\ ~rerun
    /\ rerun' = TRUE /\ pc' = "check" /\ pos' = 0
    /\ out' = {} /\ calls' = <<>> /\ result' = "none"
    /\ UNCHANGED <<raw, act, fs, env, salvage, saved, plan, order, fs0>>

NextEngine == Check \/ ApplyInstall \/ ApplyRemove \/ Finish \/ Interrupt

SpecEngine == InitEngine /\ [][NextEngine]_vars

(***************************************************************************)
(* SpecScenario: the engine installs the package of the search tests on an *)
(* empty image.                                                            *)
(***************************************************************************)

\* The names of the objects the package delivers.
Bin == <<"b", "i", "n">>
ExampleDirName == <<"e", "x", "a", "m", "p", "l", "e", "_", "d", "i", "r">>
ExamplePathName ==
    <<"e", "x", "a", "m", "p", "l", "e", "_", "p", "a", "t", "h">>

\* dir mode=0755 owner=root group=bin path=/bin
BinDir ==
    DirectoryAction([path |-> <<sep>> \o Bin, mode |-> <<"0", "7", "5", "5">>,
                     owner |-> "root", group |-> "bin"])

\* dir mode=0755 owner=root group=bin path=/bin/example_dir
ExampleDir ==
    DirectoryAction([path |-> <<sep>> \o Bin \o <<sep>> \o ExampleDirName,
                     mode |-> <<"0", "7", "5", "5">>,
                     owner |-> "root", group |-> "bin"])

\* file mode=0555 owner=root group=bin path=/bin/example_path
ExamplePath ==
    FileAction([path |-> <<sep>> \o Bin \o <<sep>> \o ExamplePathName,
                mode |-> <<"0", "5", "5", "5">>,
                owner |-> "root", group |-> "bin"])

\* The destination manifest, its three actions in any order.
ScenarioManifests ==
    {m \in [1..3 -> {BinDir, ExampleDir, ExamplePath}] :
        \A i, j \in 1..3 : i # j => m[i] # m[j]}

\* The platforms of the scenario: the root is writable and chown works, is
\* refused, is not supported or fails.
ScenarioEnvs ==
    [is_admin : BOOLEAN, chown : {"ok", "EPERM", "ENOSYS", "EIO"},
     rofs : {FALSE}, nonempty : {"ENOTEMPTY"}]

InitScenario ==
    /\ env \in ScenarioEnvs
    /\ \E d \in ScenarioManifests : plan = [origin |-> <<>>, dest |-> d]
    /\ fs = RootOnly(env)
    /\ fs0 = fs
    /\ pc = "check" /\ order = <<>> /\ pos = 0 /\ rerun = FALSE
    /\ result = "none" /\ out = {}
    /\ salvage = <<>> /\ saved = {} /\ calls = <<>>
    /\ raw = <<>> /\ act = NoAction

NextScenario == Check \/ ApplyInstall \/ Finish

SpecScenario == InitScenario /\ [][NextScenario]_vars

\* The pair of the plan with type and key k.
PairOf(k) == CHOOSE p \in Pairs(plan) : p.id = k

RECURSIVE RunSeq(_, _, _)
\* An uninterrupted run that applies the pairs ks in order: where it stops
\* and what it returns.
RunSeq(f, e, ks) ==
    IF ks = <<>> THEN [fs |-> f, res |-> "ok"]
    ELSE LET r == ApplyPair(f, e, PairOf(ks[1]))
         IN  IF r.res # "ok" THEN [fs |-> r.fs, res |-> r.res]
             ELSE RunSeq(r.fs, e, Tail(ks))

(***************************************************************************)
(* sysvpkg.PkgMapLine: one line of the pkgmap of a SysV package            *)
(***************************************************************************)

RECURSIVE split(_, _)
\* str.split(c): the pieces between the occurrences of the character c,
\* empty pieces included.
split(s, c) ==
    IF \A i \in 1..Len(s) : s[i] # c
    THEN <<s>>
    ELSE LET i == CHOOSE k \in 1..Len(s) :
                      s[k] = c /\ \A j \in 1..(k - 1) : s[j] # c
         IN  <<SubSeq(s, 1, i - 1)>> \o split(SubSeq(s, i + 1, Len(s)), c)

DecDigits == OctDigits \cup {"8", "9"}

RECURSIVE DecVal(_)
DecVal(s) ==
    IF s = <<>> THEN 0
    ELSE LET c == s[Len(s)]
             v == IF c = "8" THEN 8 ELSE IF c = "9" THEN 9 ELSE DigitVal(c)
         IN  10 * DecVal(SubSeq(s, 1, Len(s) - 1)) + v

\* int(s) of a field of a line: the number, or ValueError for a field that
\* is empty or has a character that is not a decimal digit.
ParseInt(s) ==
    IF s = <<>> \/ \E i \in 1..Len(s) : s[i] \notin DecDigits
    THEN [ok |-> FALSE, error |-> "ValueError"]
    ELSE [ok |-> TRUE, value |-> DecVal(s)]

\* Variant of InsertFront: array[0:1] = s, the first field is replaced.
InsertFront_replace(array, s) == [i \in 1..Len(s) |-> <<s[i]>>] \o Tail(array)

\* array[0:0] = s: every character of the string s becomes a field in front
\* of the fields of array.
InsertFront(array, s) == [i \in 1..Len(s) |-> <<s[i]>>] \o array

\* The attributes a line of the type gives after its class (after its type,
\* for type i), in the order of its fields; none for any other type.
Fields(type) ==
    IF type = <<"i">> THEN <<"pathname", "size", "chksum", "modtime">>
    ELSE IF type \in {<<"f">>, <<"e">>, <<"v">>}
    THEN <<"pathname", "mode", "owner", "group", "size", "chksum", "modtime">>
    ELSE IF type \in {<<"b">>, <<"c">>}
    THEN <<"pathname", "major", "minor", "mode", "owner", "group">>
    ELSE IF type \in {<<"d">>, <<"x">>, <<"p">>}
    THEN <<"pathname", "mode", "owner", "group">>
    ELSE IF type \in {<<"l">>, <<"s">>} THEN <<"pathname", "target">>
    ELSE <<>>

\* (n1, ..., nk) = values: the attributes named names when there are as many
\* values as names, ValueError otherwise.
Unpack(base, names, values) ==
    IF Len(values) # Len(names) THEN [err |-> "ValueError"]
    ELSE [n \in DOMAIN base \cup {names[i] : i \in 1..Len(names)} |->
             IF n \in DOMAIN base THEN base[n]
             ELSE values[CHOOSE i \in 1..Len(names) : names[i] = n]]

\* PkgMapLine.__init__(line): the attributes of the object and err = None,
\* or the exception raised.
PkgMapLine(line) ==
    LET first == split(line, " ")
        p == ParseInt(first[1])
        part == IF p.ok THEN p.value ELSE 1
        array == IF p.ok THEN first ELSE InsertFront(first, <<"1">>)
    IN  IF Len(array) < 2 THEN [err |-> "IndexError"]
        ELSE LET type == array[2]
                 b1 == [err |-> None, part |-> part, type |-> type]
             IN  IF type = <<"i">>
                 THEN Unpack(b1, Fields(type), SubSeq(array, 3, Len(array)))
                 ELSE IF Len(array) < 3 THEN [err |-> "IndexError"]
                 ELSE LET b2 == [err |-> None, part |-> part, type |-> type,
                                 klass |-> array[3]]
                      IN  IF type \in {<<"l">>, <<"s">>}
                          THEN IF Len(array) < 4 THEN [err |-> "IndexError"]
                               ELSE Unpack(b2, Fields(type),
                                           split(array[4], "="))
                          ELSE IF Fields(type) = <<>>
                          THEN [err |-> "ValueError"]
                          ELSE Unpack(b2, Fields(type),
                                      SubSeq(array, 4, Len(array)))

\* The most fields that follow the type of an enumerated line.
MaxFields == 8

RECURSIVE JoinSpace(_)
\* " ".join(fields)
JoinSpace(fields) ==
    IF fields = <<>> THEN <<>>
    ELSE IF Len(fields) = 1 THEN fields[1]
    ELSE fields[1] \o <<" ">> \o JoinSpace(Tail(fields))

\* The lines that are enumerated. A line starts with nothing, a part number
\* or an empty field; its type is one of the eleven or one of three others;
\* up to MaxFields fields follow, each position with a value of its own, and
\* the second of them, where a link has pathname=target, with no, one or two
\* "=".
PkgMapLines ==
    LET parts == {<<>>, <<<<"1">>>>, <<<<"2">>>>, <<<<"1", "2">>>>, <<<<>>>>}
        types == {<<"i">>, <<"f">>, <<"e">>, <<"v">>, <<"b">>, <<"c">>,
                  <<"d">>, <<"x">>, <<"p">>, <<"l">>, <<"s">>,
                  <<"z">>, <<"d", "d">>, <<"I">>}
        paths == {<<"P">>, <<"P", "=", "T">>, <<"P", "=", "T", "=", "U">>}
        filler == <<"A", "B", "C", "D", "E", "F", "G", "H", "I", "J">>
        rest(n, v) ==
            [k \in 1..n |-> IF k = 2 THEN v
                            ELSE <<filler[((k - 1) % Len(filler)) + 1]>>]
    IN  {JoinSpace(p \o <<t>> \o rest(n, v)) :
            p \in parts, t \in types, n \in 0..MaxFields, v \in paths}

InitPkgMap ==
    /\ raw \in PkgMapLines
    /\ out = <<>> /\ pc = "line"
    /\ act = NoAction
    /\ fs = NoFs /\ env = NoEnv /\ salvage = <<>> /\ saved = {} /\ calls = <<>>
    /\ NoEngine

\* pkgmap += [ PkgMapLine(line) ]
ParseLine ==
    /\ pc = "line"
    /\ out' = PkgMapLine(raw)
    /\ pc' = "parsed"
    /\ UNCHANGED <<raw, act, fs, env, salvage, saved, calls, engineVars>>

NextPkgMap == ParseLine

SpecPkgMap == InitPkgMap /\ [][NextPkgMap]_vars

(***************************************************************************)
(* flavor.python.process_python_dependencies                               *)
(***************************************************************************)

\* s starts with the characters of p.
StartsWith(s, p) == Len(s) >= Len(p) /\ SubSeq(s, 1, Len(p)) = p

\* s without its first n characters.
Drop(s, n) == SubSeq(s, n + 1, Len(s))

\* \d+ at the start of s: how many characters the pattern takes.
DigitRun(s) ==
    CHOOSE n \in 0..Len(s) :
        /\ \A i \in 1..n : s[i] \in DecDigits
        /\ n < Len(s) => s[n + 1] \notin DecDigits

\* A regular expression that did not match.
NoMatch == [ok |-> FALSE]

\* (?P<major>\d+)\.(?P<minor>\d+) at the start of s: the two groups and what
\* follows them.
MatchVersion(s) ==
    LET a == DigitRun(s)
        t == Drop(s, a)
        b == IF t = <<>> THEN 0 ELSE DigitRun(Tail(t))
    IN  IF a = 0 \/ t = <<>> \/ Head(t) # "." \/ b = 0 THEN NoMatch
        ELSE [ok |-> TRUE, major |-> SubSeq(s, 1, a),
              minor |-> SubSeq(Tail(t), 1, b), rest |-> Drop(Tail(t), b)]

UsrLibPython ==
    <<"u", "s", "r", "/", "l", "i", "b", "/",
      "p", "y", "t", "h", "o", "n">>
UsrBinPython ==
    <<"/", "u", "s", "r", "/", "b", "i", "n", "/",
      "p", "y", "t", "h", "o", "n">>

\* py_lib_re.match(path): ^usr/lib/python(\d+)\.(\d+)/
py_lib_re(path) ==
    IF ~StartsWith(path, UsrLibPython) THEN NoMatch
    ELSE LET v == MatchVersion(Drop(path, Len(UsrLibPython)))
         IN  IF v.ok /\ v.rest # <<>> /\ Head(v.rest) = sep
             THEN [ok |-> TRUE, major |-> v.major, minor |-> v.minor]
             ELSE NoMatch

\* py_bin_re.match(script_path): ^\#\!\s*/usr/bin/python(\d+)\.(\d+)
py_bin_re(script_path) ==
    IF ~StartsWith(script_path, <<"#", "!">>) THEN NoMatch
    ELSE LET t == Drop(script_path, 2)
             n == CHOOSE k \in 0..Len(t) :
                      /\ \A i \in 1..k : t[i] = " "
                      /\ k < Len(t) => t[k + 1] # " "
             u == Drop(t, n)
         IN  IF ~StartsWith(u, UsrBinPython) THEN NoMatch
             ELSE LET v == MatchVersion(Drop(u, Len(UsrBinPython)))
                  IN  IF v.ok
                      THEN [ok |-> TRUE, major |-> v.major,
                            minor |-> v.minor]
                      ELSE NoMatch

\* bool(script_path): the path is given and is not the empty string.
executable(in) ==
    "script_path" \in DOMAIN in /\ in["script_path"] # <<>>

\* install_match and script_match of a call.
install_match(in) == py_lib_re(in["path"])
script_match(in) ==
    IF executable(in) THEN py_bin_re(in["script_path"]) ELSE NoMatch

\* "%s.%s" % (major, minor)
VersionText(m) == m.major \o <<".">> \o m.minor

\* An error of the list the function returns: its class and what it was
\* constructed from, as strings.
Err(type, args) == [type |-> type, args |-> args]

\* Variant of analysis_version: the version of the #! line goes first.
analysis_version_file(x, d, f) ==
    IF x /\ f.ok THEN f ELSE IF d.ok THEN d ELSE NoMatch

\* The match analysis_major and analysis_minor are taken from, NoMatch when
\* they stay None.
analysis_version(x, d, f) ==
    IF x THEN IF d.ok THEN d ELSE IF f.ok THEN f ELSE NoMatch
    ELSE IF d.ok THEN d ELSE NoMatch

\* The errors the version check appends to errs.
version_errs(x, d, f) ==
    IF ~x THEN <<>>
    ELSE (IF d.ok /\ f.ok /\ (f.major # d.major \/ f.minor # d.minor)
          THEN <<Err("PythonMismatchedVersion",
                     <<VersionText(d), VersionText(f)>>)>>
          ELSE <<>>)
         \o (IF ~d.ok /\ ~f.ok
             THEN <<Err("PythonUnspecifiedVersion", <<>>)>>
             ELSE <<>>)

\* (int(analysis_major), int(analysis_minor)); the empty tuple when the two
\* are None.
IntVersion(m) == IF m.ok THEN <<DecVal(m.major), DecVal(m.minor)>> ELSE <<>>

RECURSIVE Dedup(_)
\* list(set(s)), in the order of first occurrence.
Dedup(s) ==
    IF s = <<>> THEN <<>>
    ELSE LET r == Dedup(SubSeq(s, 1, Len(s) - 1))
         IN  IF \E i \in 1..Len(r) : r[i] = s[Len(s)] THEN r
             ELSE Append(r, s[Len(s)])

\* The name of a module in the enumerated outcomes.
ModuleName == <<"m">>

RECURSIVE ReadLines(_, _, _, _)
\* The loop over out.splitlines(): deps, errs and bad_lines after it. A line
\* is a dependency that evaluates ("DEP"), one that does not, a missing
\* module ("ERR"), or anything else.
ReadLines(lines, deps, errs, bad) ==
    IF lines = <<>> THEN [deps |-> deps, errs |-> errs, bad |-> bad]
    ELSE LET l == Head(lines)
         IN  IF l = "DEP"
             THEN ReadLines(Tail(lines), Append(deps, ModuleName), errs, bad)
             ELSE IF l = "ERR"
             THEN ReadLines(Tail(lines), deps,
                      Append(errs, Err("PythonModuleMissingPath",
                                       <<ModuleName>>)), bad)
             ELSE ReadLines(Tail(lines), deps, errs, Append(bad, <<l>>))

\* The most lines the output of the child has.
MaxOutLines == 2

\* The calls that are enumerated. The path is under the library directory of
\* a python version (2.6, 2.4, and 2.6 written 2.06), elsewhere, or a near
\* miss of the pattern. script_path is None (no such field), empty, a #! line
\* with a version (2.6, 2.4, 2.6 after a space), one without a version, or one
\* without "#!". The running interpreter is 2.6 or 2.4. The module finder of
\* this process loads no, one or twice the same module and misses none or
\* one name. Starting the child raises, or it runs, exits with 0 or 1 and
\* prints up to MaxOutLines lines.
PythonCalls ==
    LET v26 == <<"2", ".", "6">>
        v24 == <<"2", ".", "4">>
        paths == {UsrLibPython \o v26 \o <<sep, "m">>,
                  UsrLibPython \o v24 \o <<sep, "m">>,
                  UsrLibPython \o <<"2", ".", "0", "6", sep, "m">>,
                  <<"u", "s", "r", sep, "b", "i", "n", sep, "m">>,
                  <<sep>> \o UsrLibPython \o v26 \o <<sep, "m">>,
                  UsrLibPython \o v26,
                  UsrLibPython \o <<"2", "6", sep, "m">>,
                  UsrLibPython \o <<sep, "m">>}
        scripts == {<<>>,
                    <<"#", "!">> \o UsrBinPython \o v26,
                    <<"#", "!">> \o UsrBinPython \o v24,
                    <<"#", "!", " ">> \o UsrBinPython \o v26,
                    <<"#", "!">> \o UsrBinPython,
                    UsrBinPython \o v26}
        running == {<<2, 6>>, <<2, 4>>}
        finders == [loaded : {<<>>, <<ModuleName>>, <<ModuleName, ModuleName>>},
                    missing : {<<>>, <<ModuleName>>}]
        kinds == {"DEP", "DEPBAD", "ERR", "OTHER"}
        children ==
            [popen : {"raises"}, rc : {0}, lines : {<<>>}]
                \cup [popen : {"ok"}, rc : {0, 1},
                      lines : UNION {[1..n -> kinds] : n \in 0..MaxOutLines}]
    IN  [path : paths, cur : running, finder : finders, child : children]
            \cup [path : paths, script_path : scripts, cur : running,
                  finder : finders, child : children]

InitPython ==
    /\ raw \in PythonCalls
    /\ out = [deps |-> <<>>, errs |-> <<>>, analysis |-> <<>>]
    /\ pc = "called"
    /\ act = NoAction
    /\ fs = NoFs /\ env = NoEnv /\ salvage = <<>> /\ saved = {} /\ calls = <<>>
    /\ NoEngine

\* Lines 183-219: the two matches, the errors of the version check and the
\* version to analyse with.
CheckVersions ==
    /\ pc = "called"
    /\ LET x == executable(raw)
           d == install_match(raw)
           f == script_match(raw)
       IN  out' = [deps |-> <<>>, errs |-> version_errs(x, d, f),
                   analysis |-> IntVersion(analysis_version(x, d, f))]
    /\ pc' = "checked"
    /\ UNCHANGED <<raw, act, fs, env, salvage, saved, calls, engineVars>>

\* Lines 221-222: no version, return deps, errs.
ReturnUnanalysed ==
    /\ pc = "checked" /\ out.analysis = <<>>
    /\ out' = [deps |-> out.deps, errs |-> out.errs, analysis |-> out.analysis,
               ret |-> [deps |-> out.deps, errs |-> out.errs]]
    /\ pc' = "return222"
    /\ UNCHANGED <<raw, act, fs, env, salvage, saved, calls, engineVars>>

\* Lines 229-243: the version is the running one, the module finder runs in
\* this process.
RunScript ==
    /\ pc = "checked" /\ out.analysis # <<>> /\ out.analysis = raw.cur
    /\ LET deps == out.deps \o Dedup(raw.finder.loaded)
           errs == out.errs \o
                       [i \in 1..Len(raw.finder.missing) |->
                           Err("PythonModuleMissingPath",
                               <<raw.finder.missing[i]>>)]
       IN  out' = [deps |-> deps, errs |-> errs, analysis |-> out.analysis,
                   ret |-> [deps |-> deps, errs |-> errs]]
    /\ pc' = "return243"
    /\ UNCHANGED <<raw, act, fs, env, salvage, saved, calls, engineVars>>

\* Lines 248-257: another version, and subprocess.Popen raises.
LaunchFails ==
    /\ pc = "checked" /\ out.analysis # <<>> /\ out.analysis # raw.cur
    /\ raw.child.popen = "raises"
    /\ out' = [deps |-> out.deps, errs |-> out.errs, analysis |-> out.analysis,
               ret |-> [deps |-> <<>>,
                        errs |-> <<Err("PythonSubprocessError",
                                       <<<<"None">>>>)>>]]
    /\ pc' = "return257"
    /\ UNCHANGED <<raw, act, fs, env, salvage, saved, calls, engineVars>>

\* Lines 248-280: another version, the child runs and its output is read.
Communicate ==
    /\ pc = "checked" /\ out.analysis # <<>> /\ out.analysis # raw.cur
    /\ raw.child.popen = "ok"
    /\ LET e1 == IF raw.child.rc # 0
                 THEN Append(out.errs,
                             Err("PythonSubprocessError", <<<<"1">>>>))
                 ELSE out.errs
           r == ReadLines(raw.child.lines, out.deps, e1, <<>>)
           errs == IF r.bad # <<>>
                   THEN Append(r.errs, Err("PythonSubprocessBadLine", r.bad))
                   ELSE r.errs
       IN  out' = [deps |-> r.deps, errs |-> errs, analysis |-> out.analysis,
                   ret |-> [deps |-> r.deps, errs |-> errs]]
    /\ pc' = "return280"
    /\ UNCHANGED <<raw, act, fs, env, salvage, saved, calls, engineVars>>

NextPython ==
    CheckVersions \/ ReturnUnanalysed \/ RunScript \/ LaunchFails \/ Communicate

SpecPython == InitPython /\ [][NextPython]_vars

(***************************************************************************)
(* Properties of the constructor and of generate_indices (SpecPath)        *)
(***************************************************************************)

AllSeps(s) == \A i \in 1..Len(s) : s[i] = sep

\* C6. Path normalization: a raw path of N >= 0 leading separators and a non
\* empty remainder that does not start with a separator is stored as that
\* remainder, whatever N is; an empty path and a path of separators only
\* fail with InvalidActionError.
C6_PathNormalization ==
    pc \in {"built", "raised", "indexed"} =>
        IF AllSeps(raw)
        THEN ~act.ok /\ act.error = "InvalidActionError" /\ pc = "raised"
        ELSE /\ act.ok
             /\ LET p == act.attrs["path"]
                    n == Len(raw) - Len(p)
                IN  /\ p # <<>> /\ p[1] # sep
                    /\ n >= 0
                    /\ \A i \in 1..n : raw[i] = sep
                    /\ \A i \in 1..Len(p) : p[i] = raw[n + i]

\* C6, its case: a path with two leading separators has been constructed.
C6_Witness ==
    /\ pc = "built" /\ Len(raw) >= 3
    /\ raw[1] = sep /\ raw[2] = sep /\ raw[3] # sep
    /\ act.attrs["path"] = SubSeq(raw, 3, Len(raw))

\* The last non-empty component of a path.
LastComponent(p) == Components(p)[Len(Components(p))]

\* C9. Index tuples: generate_indices returns exactly two tuples,
\* ("directory", "basename", the last component of the path, None) and
\* ("directory", "path", "/" + path, None).
C9_IndexTuples ==
    pc = "indexed" =>
        /\ Len(out) = 2
        /\ {out[1], out[2]} =
              { <<"directory", "basename", LastComponent(act.attrs["path"]), None>>,
                <<"directory", "path", <<sep>> \o act.attrs["path"], None>> }

\* C9, its case: the indices of a path of two components that ends with a
\* separator.
C9_Witness ==
    /\ pc = "indexed"
    /\ Len(Components(act.attrs["path"])) = 2
    /\ act.attrs["path"][Len(act.attrs["path"])] = sep
    /\ out[1][3] = LastComponent(act.attrs["path"])

(***************************************************************************)
(* Properties of hash_file_name (SpecShard)                                *)
(***************************************************************************)

\* A string a content hash can be: no character of it is the separator.
IsHash(h) == \A i \in 1..Len(h) : h[i] # sep

\* C12. Content-address sharding: for a hash h of at least 8 characters the
\* result is h[0:2], "/", h[2:8], "/" and h one after the other, and for the
\* alphabet it is "ab/cdefgh/abcdefghijklmnopqrstuvwxyz".
C12_Sharding ==
    (pc = "hashed" /\ IsHash(raw) /\ Len(raw) >= 8) =>
        /\ out = SubSeq(raw, 1, 2) \o <<"/">> \o SubSeq(raw, 3, 8)
                    \o <<"/">> \o raw
        /\ raw = ExampleHash =>
              out = <<"a", "b", "/", "c", "d", "e", "f", "g", "h", "/">>
                       \o ExampleHash

\* C12, its case: the alphabet has been sharded.
C12_Witness ==
    /\ pc = "hashed" /\ raw = ExampleHash
    /\ Len(out) = 36 /\ out[3] = "/" /\ out[10] = "/" /\ out[11] = "a"

(***************************************************************************)
(* Properties of install and remove (SpecAction)                           *)
(***************************************************************************)

\* The path of the action under test below the image root.
Target == Components(act.attrs["path"])

\* The file system call i left.
After(i) == IF i < Len(calls) THEN calls[i + 1].pre ELSE fs

LastOp(i) == calls[i].ops[Len(calls[i].ops)]

\* Calls i and i + 1 are install(plan, None) of an action with a valid mode,
\* and call i found no object at the target.
FreshInstallTwice(i) ==
    /\ i + 1 <= Len(calls)
    /\ calls[i].op = "install" /\ ~calls[i].orig.ok
    /\ calls[i + 1].op = "install" /\ ~calls[i + 1].orig.ok
    /\ ParseMode(act).ok
    /\ ~Exists(calls[i].pre, Target)

\* C1. Idempotent install: on a fresh target, a second install(plan, None)
\* leaves the file system (hence the mode, owner and group on disk) as the
\* first left it and returns what the first returned: it succeeds when the
\* first did, "already exists" being no error.
C1_IdempotentInstall ==
    \A i \in 1..Len(calls) :
        FreshInstallTwice(i) =>
            /\ After(i + 1) = After(i)
            /\ calls[i + 1].res = calls[i].res
            /\ calls[i + 1].ops[1].err = "EEXIST" => calls[i + 1].res # "EEXIST"

\* C1, its case: two installs in a row succeeded, the second on the directory
\* the first made.
C1_Witness ==
    \E i \in 1..Len(calls) :
        /\ FreshInstallTwice(i)
        /\ calls[i].res = "ok" /\ calls[i].ops[1].err = "ok"
        /\ calls[i + 1].res = "ok" /\ calls[i + 1].ops[1].err = "EEXIST"
        /\ isdir(fs, Target)

\* Call i is a remove whose rmdir reported a directory that is not empty.
RemoveNonEmpty(i) ==
    /\ calls[i].op = "remove"
    /\ calls[i].ops[1].err \in {"ENOTEMPTY", "EEXIST"}

\* C2. Salvage on non-empty removal: remove does not raise, hands the
\* normalized image-relative path to salvagedir exactly once, makes no
\* platform call but the rmdir that failed, and every object of the image is
\* afterwards where it was or in the salvage area.
C2_SalvageNonEmpty ==
    \A i \in 1..Len(calls) :
        RemoveNonEmpty(i) =>
            /\ calls[i].res = "ok"
            /\ calls[i].salv = <<JoinSep(Components(act.attrs["path"]))>>
            /\ Len(calls[i].ops) = 1
            /\ \A q \in DOMAIN calls[i].pre :
                  \/ q \in DOMAIN After(i) /\ After(i)[q] = calls[i].pre[q]
                  \/ [from |-> q, obj |-> calls[i].pre[q]] \in saved

\* C2, its case: a directory holding a file no package delivers was removed
\* and the file is in the salvage area.
C2_Witness ==
    \E i \in 1..Len(calls) :
        /\ RemoveNonEmpty(i)
        /\ Exists(calls[i].pre, Append(Target, Untracked))
        /\ [from |-> Append(Target, Untracked), obj |-> OldFile] \in saved
        /\ Len(salvage) = 1

\* The paths whose object call i created, removed or changed.
ChangedPaths(i) ==
    {q \in (DOMAIN calls[i].pre) \cup (DOMAIN After(i)) :
        \/ q \notin DOMAIN calls[i].pre
        \/ q \notin DOMAIN After(i)
        \/ calls[i].pre[q] # After(i)[q]}

\* C7 as claimed: a call that hands nothing to salvage changes the file
\* system at the action's own path only.
C7_OwnPathOnly ==
    \A i \in 1..Len(calls) :
        calls[i].salv = <<>> => ChangedPaths(i) \subseteq {Target}

\* C7. Frame of a lifecycle call: besides the action's own path, a call
\* changes only (a) in an install without origin, directories above the path
\* that did not exist and are created, and (b) in a remove that hands the
\* directory to salvage, the objects below the path, which move to the
\* salvage area.
C7_Frame ==
    \A i \in 1..Len(calls) :
        \A q \in ChangedPaths(i) \ {Target} :
            \/ /\ calls[i].op = "install" /\ ~calls[i].orig.ok
               /\ IsProperPrefix(q, Target)
               /\ q \notin DOMAIN calls[i].pre
               /\ After(i)[q].kind = "dir"
            \/ /\ calls[i].op = "remove" /\ calls[i].salv # <<>>
               /\ IsProperPrefix(Target, q)
               /\ q \notin DOMAIN After(i)
               /\ [from |-> q, obj |-> calls[i].pre[q]] \in saved

\* C7, its case: an install made the directory above its path.
C7_Witness ==
    \E i \in 1..Len(calls) :
        /\ calls[i].op = "install" /\ calls[i].res = "ok"
        /\ \E q \in ChangedPaths(i) : IsProperPrefix(q, Target)

\* kind and mode of every object.
Shape(f) == [q \in DOMAIN f |-> <<f[q].kind, f[q].mode>>]

\* Call i is an install that tried to change the owner.
TriedChown(i) ==
    /\ calls[i].op = "install" /\ calls[i].ops # <<>>
    /\ LastOp(i).call = "chown"

\* C8. Ownership tolerance: when chown fails with EPERM or ENOSYS, install
\* returns success, every object exists with the kind and mode it would have
\* had chown succeeded, and the owner and group of the directory are those it
\* had before the chown; when chown fails otherwise, install raises that
\* error.
C8_OwnershipTolerance ==
    \A i \in 1..Len(calls) :
        (TriedChown(i) /\ LastOp(i).err # "ok") =>
            IF LastOp(i).err \in {"EPERM", "ENOSYS"}
            THEN /\ calls[i].res = "ok"
                 /\ Shape(After(i)) =
                       Shape(install(calls[i].pre, [env EXCEPT !.chown = "ok"],
                                     act, calls[i].orig, TRUE).fs)
                 /\ LET was == IF Exists(calls[i].pre, Target)
                               THEN calls[i].pre[Target]
                               ELSE Dir(0, ProcessId(env), ProcessId(env))
                    IN  /\ After(i)[Target].uid = was.uid
                        /\ After(i)[Target].gid = was.gid
            ELSE calls[i].res = LastOp(i).err

\* C8, its case: an install succeeded although chown was not supported, and
\* the directory it made is not owned as the action asks.
C8_Witness ==
    \E i \in 1..Len(calls) :
        /\ TriedChown(i) /\ LastOp(i).err = "ENOSYS"
        /\ calls[i].res = "ok"
        /\ ~Exists(calls[i].pre, Target) /\ isdir(After(i), Target)
        /\ After(i)[Target].uid # get_fsobj_uid_gid(act)[1]

\* The action as call i left it.
SelfNext(i) == IF i < Len(calls) THEN calls[i + 1].self ELSE act

InstalledFresh(i) ==
    /\ i + 1 <= Len(calls)
    /\ calls[i].op = "install" /\ ~calls[i].orig.ok /\ calls[i].res = "ok"
    /\ ~Exists(calls[i].pre, Target)
    /\ calls[i + 1].op = "verify"

\* C15 as claimed: verify after a successful fresh install returns no error
\* and the mode on disk is the mode of the attribute, whoever the caller is.
C15_VerifyClean ==
    \A i \in 1..Len(calls) :
        InstalledFresh(i) =>
            /\ calls[i + 1].val = {}
            /\ After(i)[Target].mode = ParseMode(act).value

\* C15. Verify after install: after a successful install(plan, None) on a
\* fresh target, verify reports no missing object and no wrong type; it
\* reports the mode exactly when the caller is not privileged and the mode
\* of the attribute lacks the owner-write bit, and the owner (group) exactly
\* when chown was refused and the caller's id is not the one declared.
C15_VerifyAfterInstall ==
    \A i \in 1..Len(calls) :
        InstalledFresh(i) =>
            LET errors == calls[i + 1].val
                m == ParseMode(act).value
                refused == LastOp(i).call = "chown" /\ LastOp(i).err # "ok"
            IN  /\ errors \cap {"missing", "type"} = {}
                /\ "mode" \in errors <=>
                       (~env.is_admin /\ (m \div S_IWUSR) % 2 = 0)
                /\ "owner" \in errors <=>
                       (refused /\ ProcessId(env) # NameId(act.attrs["owner"]))
                /\ "group" \in errors <=>
                       (refused /\ ProcessId(env) # NameId(act.attrs["group"]))

\* C15, its case: an unprivileged caller installed a directory of mode 0555,
\* chown worked, and verify reports the mode and nothing else.
C15_Witness ==
    \E i \in 1..Len(calls) :
        /\ InstalledFresh(i) /\ ~env.is_admin /\ env.chown = "ok"
        /\ act.attrs["mode"] = <<"0", "5", "5", "5">>
        /\ calls[i + 1].val = {"mode"}

\* Call i is a remove whose rmdir was denied access.
RemoveAccessDenied(i) ==
    /\ calls[i].op = "remove"
    /\ calls[i].ops[1].err = "EACCES"

CreateOnRofs(i) ==
    /\ calls[i].op = "install" /\ ~calls[i].orig.ok /\ calls[i].ops # <<>>
    /\ calls[i].ops[1].call = "makedirs" /\ calls[i].ops[1].err = "EROFS"

\* C19. Read-only file system on create: when the makedirs of a fresh
\* install fails with EROFS, install succeeds if and only if the target is
\* a directory already; otherwise it raises EROFS. Either way it makes no
\* other platform call and changes nothing.
C19_ReadOnlyCreate ==
    \A i \in 1..Len(calls) :
        CreateOnRofs(i) =>
            /\ calls[i].res = "ok" <=>
                   ( /\ Target \in DOMAIN calls[i].pre
                     /\ calls[i].pre[Target].kind = "dir" )
            /\ calls[i].res # "ok" => calls[i].res = "EROFS"
            /\ Len(calls[i].ops) = 1
            /\ After(i) = calls[i].pre

\* C19, its case: on a read-only file system an install succeeded on a
\* directory that was there, and a second one did too.
C19_Witness ==
    /\ Len(calls) = 2
    /\ CreateOnRofs(1) /\ calls[1].res = "ok"
    /\ CreateOnRofs(2) /\ calls[2].res = "ok"
    /\ fs[Target].kind = "dir"

\* Call i is an install that got past the parsing of the modes.
InstallRan(i) ==
    /\ calls[i].op = "install" /\ ParseMode(calls[i].self).ok
    /\ calls[i].orig.ok => ParseMode(calls[i].orig).ok

\* The platform calls of call i with the given name.
OpsOf(i, call) ==
    {k \in DOMAIN calls[i].ops : calls[i].ops[k].call = call}

\* The mode of the attribute, with the owner-write bit for a caller that is
\* not privileged.
Forced(i) ==
    LET m == ParseMode(calls[i].self).value
    IN  IF env.is_admin THEN m
        ELSE IF (m \div S_IWUSR) % 2 = 1 THEN m ELSE m + S_IWUSR

\* C20 as claimed: the owner-write bit is forced on in the mode passed to
\* makedirs only; an update compares the mode of the attribute with the
\* origin's and applies the mode of the attribute; the attribute is unchanged.
C20_CreateTimeOnly ==
    \A i \in 1..Len(calls) :
        InstallRan(i) =>
            LET m == ParseMode(calls[i].self).value
            IN  /\ \A k \in OpsOf(i, "makedirs") : calls[i].ops[k].arg = Forced(i)
                /\ \A k \in OpsOf(i, "chmod") : calls[i].ops[k].arg = m
                /\ calls[i].orig.ok =>
                      (OpsOf(i, "chmod") # {} <=>
                          m # ParseMode(calls[i].orig).value)
                /\ SelfNext(i).attrs = calls[i].self.attrs

\* C20. Privilege accommodation: for a caller that is not privileged the
\* owner-write bit is forced on in the mode install works with: the mode
\* passed to makedirs, and as well the mode an update compares with the
\* origin's mode and passes to chmod. The attributes of the action are
\* unchanged by install. For a privileged caller that mode is the mode of
\* the attribute.
C20_ForcedMode ==
    \A i \in 1..Len(calls) :
        InstallRan(i) =>
            /\ \A k \in OpsOf(i, "makedirs") : calls[i].ops[k].arg = Forced(i)
            /\ \A k \in OpsOf(i, "chmod") : calls[i].ops[k].arg = Forced(i)
            /\ ~calls[i].orig.ok => OpsOf(i, "makedirs") = {1}
            /\ calls[i].orig.ok =>
                  /\ OpsOf(i, "makedirs") = {}
                  /\ OpsOf(i, "chmod") # {} <=>
                         Forced(i) # ParseMode(calls[i].orig).value
            /\ env.is_admin => Forced(i) = ParseMode(calls[i].self).value
            /\ SelfNext(i).attrs = calls[i].self.attrs

\* C20, its case: an unprivileged update from mode 0555 to mode 0555 has
\* applied mode 0755.
C20_Witness ==
    \E i \in 1..Len(calls) :
        /\ InstallRan(i) /\ calls[i].orig.ok /\ ~env.is_admin
        /\ calls[i].res = "ok"
        /\ act.attrs["mode"] = <<"0", "5", "5", "5">>
        /\ calls[i].orig.attrs["mode"] = <<"0", "5", "5", "5">>
        /\ \E k \in OpsOf(i, "chmod") :
              calls[i].ops[k].arg = OctVal(<<"0", "7", "5", "5">>)

\* Call i is an install with an origin action that got past the parsing of
\* the modes.
UpdateRan(i) == InstallRan(i) /\ calls[i].orig.ok

\* The mode of the attribute of the origin action of call i.
OMode(i) == ParseMode(calls[i].orig).value

\* The mode of the attribute of the action call i was made on.
AMode(i) == ParseMode(calls[i].self).value

\* C21 as claimed: an update calls chmod if and only if the modes of the two
\* attributes differ, and between equal modes the mode on disk stays.
C21_ChmodIffModesDiffer ==
    \A i \in 1..Len(calls) :
        UpdateRan(i) =>
            /\ OpsOf(i, "chmod") # {} <=> AMode(i) # OMode(i)
            /\ (AMode(i) = OMode(i) /\ Target \in DOMAIN calls[i].pre) =>
                  After(i)[Target].mode = calls[i].pre[Target].mode

\* C21. Mode update: an update calls chmod, once and first, if and only if
\* the mode of the destination attribute, with the owner-write bit forced on
\* for a caller that is not privileged, differs from the mode of the origin
\* attribute; for a privileged caller that is if and only if the two
\* attributes differ. A chmod that succeeds leaves that mode on disk; an
\* update without chmod leaves the mode on disk as it was.
C21_ModeUpdate ==
    \A i \in 1..Len(calls) :
        UpdateRan(i) =>
            /\ OpsOf(i, "chmod") # {} <=> Forced(i) # OMode(i)
            /\ OpsOf(i, "chmod") \subseteq {1}
            /\ env.is_admin => (OpsOf(i, "chmod") # {} <=> AMode(i) # OMode(i))
            /\ \A k \in OpsOf(i, "chmod") :
                  calls[i].ops[k].err = "ok" => After(i)[Target].mode = Forced(i)
            /\ (OpsOf(i, "chmod") = {} /\ Target \in DOMAIN calls[i].pre) =>
                  After(i)[Target].mode = calls[i].pre[Target].mode

\* C21, its case: an unprivileged update from mode 0755 to mode 0555 has
\* succeeded without chmod and the mode on disk is as it was.
C21_Witness ==
    \E i \in 1..Len(calls) :
        /\ UpdateRan(i) /\ ~env.is_admin /\ calls[i].res = "ok"
        /\ AMode(i) # OMode(i) /\ OpsOf(i, "chmod") = {}
        /\ Target \in DOMAIN calls[i].pre
        /\ After(i)[Target].mode = calls[i].pre[Target].mode

\* Call i is an install whose mode attribute, or whose origin's, is missing
\* or is no octal number.
InvalidMode(i) ==
    /\ calls[i].op = "install"
    /\ \/ ~ParseMode(calls[i].self).ok
       \/ calls[i].orig.ok /\ ~ParseMode(calls[i].orig).ok

\* C22. Invalid mode at install: when the mode of the action or of the
\* origin is missing or does not parse, install raises the
\* ActionValidationError of validate, not a TypeError or ValueError, makes
\* no platform call and leaves the file system as it was.
C22_InvalidMode ==
    \A i \in 1..Len(calls) :
        InvalidMode(i) =>
            /\ calls[i].res = "ActionValidationError"
            /\ calls[i].ops = <<>>
            /\ After(i) = calls[i].pre

\* C22, its case: an unprivileged update of an action with a valid mode
\* from an origin without mode, and one from an origin with mode 0955.
C22_Witness ==
    /\ Len(calls) = 2 /\ ~env.is_admin /\ ParseMode(act).ok
    /\ InvalidMode(1) /\ "mode" \notin DOMAIN calls[1].orig.attrs
    /\ InvalidMode(2) /\ "mode" \in DOMAIN calls[2].orig.attrs
    /\ calls[2].res = "ActionValidationError"

\* C23. Removal of an absent directory: when nothing is at the path, remove
\* succeeds, changes nothing and hands nothing to salvage. Of two removes in
\* a row of an empty directory the first succeeds unless the file system is
\* read-only, and after a first that succeeded the second succeeds and
\* leaves the state the first left.
C23_RemoveAbsent ==
    \A i \in 1..Len(calls) :
        calls[i].op = "remove" =>
            /\ ~Exists(calls[i].pre, Target) =>
                  /\ calls[i].res = "ok"
                  /\ After(i) = calls[i].pre
                  /\ calls[i].salv = <<>>
            /\ ( /\ i < Len(calls) /\ calls[i + 1].op = "remove"
                 /\ isdir(calls[i].pre, Target)
                 /\ ~HasChildren(calls[i].pre, Target) ) =>
                  /\ ~env.rofs => calls[i].res = "ok"
                  /\ calls[i].res = "ok" =>
                        /\ calls[i + 1].res = "ok"
                        /\ After(i + 1) = After(i)
                        /\ ~Exists(After(i), Target)
                        /\ salvage = <<>>

\* C23, its case: an empty directory was removed twice.
C23_Witness ==
    /\ Len(calls) = 2 /\ calls[1].op = "remove" /\ calls[2].op = "remove"
    /\ isdir(calls[1].pre, Target) /\ ~HasChildren(calls[1].pre, Target)
    /\ calls[1].ops[1].err = "ok" /\ calls[2].ops[1].err = "ENOENT"
    /\ calls[2].res = "ok" /\ ~Exists(fs, Target)

\* Owner or group of the action of call i is not the origin's.
OwnerChanged(i) ==
    get_fsobj_uid_gid(calls[i].orig) # get_fsobj_uid_gid(calls[i].self)

\* C24 as claimed: an install that succeeds has called chown if and only if
\* there is no origin or the owner or group differs from the origin's.
C24_ChownIffFreshOrChanged ==
    \A i \in 1..Len(calls) :
        (InstallRan(i) /\ calls[i].res = "ok") =>
            (OpsOf(i, "chown") # {} <=>
                (~calls[i].orig.ok \/ OwnerChanged(i)))

\* C24. When ownership is set: an install calls chown only if there is no
\* origin or the owner or group differs from the origin's, and then it does,
\* once, last, with the ids of the action, unless it has ended before: the
\* makedirs or the chmod failed, or makedirs reported a read-only file
\* system (install then returns at once, with success if the directory is
\* there). An update with the owner and group of the origin calls no chown.
C24_OwnershipCall ==
    \A i \in 1..Len(calls) :
        InstallRan(i) =>
            LET first == calls[i].ops[1]
                ended == /\ calls[i].ops # <<>>
                         /\ first.call \in {"makedirs", "chmod"}
                         /\ first.err \notin
                               (IF first.call = "makedirs" THEN {"ok", "EEXIST"}
                                ELSE {"ok"})
            IN  /\ OpsOf(i, "chown") # {} <=>
                      (~ended /\ (~calls[i].orig.ok \/ OwnerChanged(i)))
                /\ \A k \in OpsOf(i, "chown") :
                      /\ k = Len(calls[i].ops)
                      /\ calls[i].ops[k].arg = get_fsobj_uid_gid(calls[i].self)
                      /\ calls[i].ops[k].path = Target

\* C24, its case: an update that changes the owner only has called chown
\* and nothing else, and a fresh install on a read-only file system has
\* succeeded without chown.
C24_Witness ==
    /\ Len(calls) = 2
    /\ InstallRan(1) /\ ~calls[1].orig.ok /\ calls[1].res = "ok"
    /\ OpsOf(1, "chown") = {}
    /\ UpdateRan(2) /\ OwnerChanged(2) /\ Len(calls[2].ops) = 1
    /\ OpsOf(2, "chown") = {1}

\* C28 as claimed: after an install(plan, None) that succeeded the target is
\* a directory.
C28_FreshInstallYieldsDirectory ==
    \A i \in 1..Len(calls) :
        (calls[i].op = "install" /\ ~calls[i].orig.ok /\ calls[i].res = "ok") =>
            /\ Target \in DOMAIN After(i)
            /\ After(i)[Target].kind = "dir"

\* C29 as claimed: an update creates nothing, and where the directory is
\* absent it succeeds if mode, owner and group are those of the origin and
\* fails with the error of chmod or chown otherwise.
C29_AbsentUnchangedSucceeds ==
    \A i \in 1..Len(calls) :
        UpdateRan(i) =>
            /\ DOMAIN After(i) \subseteq DOMAIN calls[i].pre
            /\ ~Exists(calls[i].pre, Target) =>
                  /\ ~Exists(After(i), Target)
                  /\ IF AMode(i) = OMode(i) /\ ~OwnerChanged(i)
                     THEN calls[i].res = "ok"
                     ELSE calls[i].res = "ENOENT"

\* C29. Update never creates: an install with an origin creates no object.
\* Where the directory is absent it is absent afterwards, and install
\* succeeds, without any platform call, if the mode it works with (the
\* destination's, with the owner-write bit forced on for a caller that is
\* not privileged) is the origin's mode and owner and group are the
\* origin's; otherwise it raises the ENOENT of the first chmod or chown.
C29_UpdateNeverCreates ==
    \A i \in 1..Len(calls) :
        UpdateRan(i) =>
            /\ DOMAIN After(i) \subseteq DOMAIN calls[i].pre
            /\ ~Exists(calls[i].pre, Target) =>
                  /\ After(i) = calls[i].pre
                  /\ IF Forced(i) = OMode(i) /\ ~OwnerChanged(i)
                     THEN calls[i].res = "ok" /\ calls[i].ops = <<>>
                     ELSE /\ calls[i].res = "ENOENT"
                          /\ Len(calls[i].ops) = 1
                          /\ calls[i].ops[1].call \in {"chmod", "chown"}
                          /\ calls[i].ops[1].err = "ENOENT"

\* C29, its case: where the directory is absent, an unprivileged update
\* from mode 0555 to mode 0555 has failed in chmod, and one from mode 0755
\* to mode 0555 has succeeded.
C29_Witness ==
    /\ Len(calls) = 2 /\ ~env.is_admin /\ ~Exists(fs, Target)
    /\ UpdateRan(1) /\ AMode(1) = OMode(1) /\ ~OwnerChanged(1)
    /\ calls[1].res = "ENOENT" /\ calls[1].ops[1].call = "chmod"
    /\ UpdateRan(2) /\ AMode(2) # OMode(2) /\ ~OwnerChanged(2)
    /\ calls[2].res = "ok"

(***************************************************************************)
(* Properties of the engine (SpecEngine)                                   *)
(***************************************************************************)

\* The path of an action below the image root.
PathOf(a) == Components(a.attrs["path"])

\* The destination manifest holds two directory actions with the same key.
TwoWithSameKey ==
    \E i, j \in DOMAIN plan.dest :
        /\ i # j
        /\ plan.dest[i].name = "dir" /\ plan.dest[j].name = "dir"
        /\ plan.dest[i].attrs["path"] = plan.dest[j].attrs["path"]

\* C3. Uniqueness enforcement: a plan whose destination holds two directory
\* actions with the same key is rejected with UniquenessViolation, and up to
\* the rejection no lifecycle call has been made and the file system is as
\* it was.
C3_UniquenessEnforced ==
    TwoWithSameKey =>
        /\ pc \in {"check", "rejected"}
        /\ pc = "rejected" => result = "UniquenessViolation"
        /\ calls = <<>> /\ salvage = <<>> /\ fs = fs0

\* C3, its case: a plan with "a" and "/a" in the destination was rejected.
C3_Witness ==
    /\ pc = "rejected" /\ TwoWithSameKey
    /\ Len(plan.dest) = 2 /\ plan.origin # <<>>

\* The pair call j applied.
Applied(j) == PairOf(calls[j].id)

\* C4. Dependency order: when a pair is installed, every pair that installs
\* a directory above its path has been installed; when a directory is
\* removed, every pair of the plan that removes something inside it has been
\* removed.
C4_DependencyOrder ==
    \A j \in 1..Len(calls) :
        \A q \in Pairs(plan) :
            /\ ( /\ calls[j].op # "remove" /\ Classify(q) # "remove"
                 /\ IsProperPrefix(PathOf(q.dest), PathOf(Applied(j).dest)) )
                  => \E i \in 1..(j - 1) : calls[i].id = q.id
            /\ ( /\ calls[j].op = "remove" /\ Classify(q) = "remove"
                 /\ IsProperPrefix(PathOf(Applied(j).orig), PathOf(q.orig)) )
                  => \E i \in 1..(j - 1) : calls[i].id = q.id

\* C4, its case: a directory was removed after the directory inside it.
C4_Witness ==
    /\ pc = "done" /\ Len(calls) = 2
    /\ calls[1].op = "remove" /\ calls[2].op = "remove"
    /\ IsProperPrefix(PathOf(Applied(2).orig), PathOf(Applied(1).orig))

\* The paths the plan names.
Named ==
    {PathOf(plan.origin[i]) : i \in DOMAIN plan.origin}
        \cup {PathOf(plan.dest[i]) : i \in DOMAIN plan.dest}

\* Existence, kind, mode, owner and group of every path the plan names.
PlanView(f) == [q \in Named \cap DOMAIN f |-> f[q]]

\* C5. Convergence after interruption: a plan that was interrupted after any
\* number of lifecycle calls and run again from the start ends as the
\* uninterrupted run of the same pairs in the same order does: with the same
\* result (it does not fail where that run succeeds) and the same state of
\* every path the plan names.
C5_Convergence ==
    (rerun /\ pc \in {"done", "failed"}) =>
        LET ref == RunSeq(fs0, env, SubSeq(order, 1, pos))
        IN  /\ result = ref.res
            /\ PlanView(fs) = PlanView(ref.fs)

\* C5, its case: a plan with an install and a remove was interrupted after
\* its first call, run again, and is done.
C5_Witness ==
    /\ rerun /\ pc = "done" /\ Len(order) = 2
    /\ \E p \in Pairs(plan) : Classify(p) = "install"
    /\ \E p \in Pairs(plan) : Classify(p) = "remove"
    /\ fs # fs0

\* The actions of the plan.
PlanActions ==
    {plan.origin[i] : i \in DOMAIN plan.origin}
        \cup {plan.dest[i] : i \in DOMAIN plan.dest}

\* The types and keys of the actions of manifest m.
Ids(m) == {<<m[i].name, m[i].attrs["path"]>> : i \in DOMAIN m}

\* C14. Reconciliation pairs: every action of the plan is in exactly one
\* pair, the one with its type and key; each side of a pair is an action of
\* that manifest with that type and key, and is absent exactly when the
\* manifest has none; no pair has both sides absent; a pair is an install
\* iff its origin is absent, a remove iff its destination is absent, an
\* update iff both are present, and it is exactly one of the three.
C14_ReconciliationPairs ==
    /\ \A a \in PlanActions :
          Cardinality({p \in Pairs(plan) :
                          p.id = <<a.name, a.attrs["path"]>>}) = 1
    /\ \A p \in Pairs(plan) :
          /\ p.orig.ok \/ p.dest.ok
          /\ p.orig.ok <=> p.id \in Ids(plan.origin)
          /\ p.dest.ok <=> p.id \in Ids(plan.dest)
          /\ p.orig.ok => Ids(<<p.orig>>) = {p.id} /\ p.orig \in PlanActions
          /\ p.dest.ok => Ids(<<p.dest>>) = {p.id} /\ p.dest \in PlanActions
          /\ Classify(p) = "install" <=> ~p.orig.ok
          /\ Classify(p) = "remove" <=> ~p.dest.ok
          /\ Classify(p) = "update" <=> (p.orig.ok /\ p.dest.ok)
          /\ Cardinality({c \in {"install", "remove", "update"} :
                             Classify(p) = c}) = 1

\* C14, its case: a plan with an install, a remove and an update is applied.
C14_Witness ==
    /\ pc = "apply" /\ pos = 1
    /\ \E p \in Pairs(plan) : Classify(p) = "install"
    /\ \E p \in Pairs(plan) : Classify(p) = "remove"
    /\ \E p \in Pairs(plan) : Classify(p) = "update"

C10_IndexCollection ==
    pc = "done" =>
        LET kept == {p \in Pairs(plan) : Classify(p) # "remove"}
        IN  /\ {x.tuple : x \in out} =
                  UNION {{generate_indices(p.dest)[i] :
                             i \in DOMAIN generate_indices(p.dest)} : p \in kept}
            /\ \A x \in out : \E p \in kept : x.action = p.dest
            /\ \A p \in kept : \E x \in out : x.action = p.dest

\* C10, its case: a plan that removed one directory and installed another is
\* done.
C10_Witness ==
    /\ pc = "done" /\ out # {}
    /\ \E p \in Pairs(plan) : Classify(p) = "remove"
    /\ \E p \in Pairs(plan) : Classify(p) = "install"

(***************************************************************************)
(* Properties of the scenario (SpecScenario)                               *)
(***************************************************************************)

\* The index tuples collected from action a.
TuplesOf(a) == {x.tuple : x \in {y \in out : y.action = a}}

\* C11. End-to-end fresh install: on an empty image, whatever the order of
\* the manifest and the order the engine applies the three actions in, the
\* apply does not fail unless chown fails with an error that is not
\* tolerated; when it is done it has succeeded, /bin and /bin/example_dir
\* are directories, /bin/example_path is a file, and tuples of three
\* actions are collected, those of each directory action being
\* (directory, basename, its last component) and (directory, path, its path).
C11_EndToEnd ==
    /\ env.chown \in {"ok", "EPERM", "ENOSYS"} => pc # "failed"
    /\ pc = "done" =>
          /\ result = "ok"
          /\ <<Bin>> \in DOMAIN fs /\ fs[<<Bin>>].kind = "dir"
          /\ <<Bin, ExampleDirName>> \in DOMAIN fs
          /\ fs[<<Bin, ExampleDirName>>].kind = "dir"
          /\ <<Bin, ExamplePathName>> \in DOMAIN fs
          /\ fs[<<Bin, ExamplePathName>>].kind = "file"
          /\ Cardinality({x.action : x \in out}) = 3
          /\ TuplesOf(BinDir) =
                { <<"directory", "basename", Bin, None>>,
                  <<"directory", "path", <<"/">> \o Bin, None>> }
          /\ TuplesOf(ExampleDir) =
                { <<"directory", "basename", ExampleDirName, None>>,
                  <<"directory", "path",
                    <<"/">> \o Bin \o <<"/">> \o ExampleDirName, None>> }

\* C11, its case: an unprivileged run during which chown is refused has
\* installed the file before /bin/example_dir and is done.
C11_Witness ==
    /\ pc = "done" /\ ~env.is_admin /\ env.chown = "EPERM"
    /\ order[2] = <<"file", ExamplePath.attrs["path"]>>
    /\ order[3] = <<"dir", ExampleDir.attrs["path"]>>

(***************************************************************************)
(* Properties of PkgMapLine (SpecPkgMap)                                   *)
(***************************************************************************)

\* The fields of a line, and whether the first of them is a part number.
LineFields(line) == split(line, " ")
HasPart(line) == ParseInt(LineFields(line)[1]).ok

\* The line with a part number of 1 written in front of it.
Prefixed(line) == <<"1", " ">> \o line

\* The fields of a line from its type on.
FromType(line) ==
    IF HasPart(line) THEN Tail(LineFields(line)) ELSE LineFields(line)

\* The line has a type, and it is none of the eleven types.
UnknownType(line) ==
    /\ FromType(line) # <<>>
    /\ Head(FromType(line)) \notin
           {<<"i">>, <<"f">>, <<"e">>, <<"v">>, <<"b">>, <<"c">>, <<"d">>,
            <<"x">>, <<"p">>, <<"l">>, <<"s">>}

\* A line without a part number is parsed as the line with "1 " in front of
\* it is, with part 1.
PartDefault ==
    pc = "parsed" /\ ~HasPart(raw) =>
        /\ out = PkgMapLine(Prefixed(raw))
        /\ out.err = None => out.part = 1

\* C27 as stated: a line whose first field is not an integer is parsed as
\* part 1 with every other field as for the same line prefixed with "1 ",
\* and a line whose type is none of i, f, e, v, b, c, d, x, p, l, s is
\* rejected with ValueError.
C27_UnknownTypeValueError ==
    /\ PartDefault
    /\ pc = "parsed" /\ UnknownType(raw) => out.err = "ValueError"

\* C27, amended: a line whose first field is not an integer is parsed as
\* part 1 with every other field as for the same line prefixed with "1 ";
\* a line whose type is none of the eleven is rejected with ValueError when
\* a class field follows the type, and with IndexError when none does.
C27_PartDefault ==
    /\ PartDefault
    /\ pc = "parsed" /\ UnknownType(raw) =>
           out.err = IF Len(FromType(raw)) >= 2 THEN "ValueError"
                     ELSE "IndexError"

\* A directory line without a part number has been parsed.
C27_Witness ==
    /\ pc = "parsed" /\ ~HasPart(raw)
    /\ out.err = None /\ out.part = 1
    /\ out.type = <<"d">> /\ out.klass = <<"A">> /\ out.pathname = <<"P">>
    /\ out.mode = <<"C">> /\ out.owner = <<"D">> /\ out.group = <<"E">>

(***************************************************************************)
(* Properties of process_python_dependencies (SpecPython)                  *)
(***************************************************************************)

\* X, D and F of the table in the function: the file is executable, its
\* install path implies a python version, its #! line names one.
X == executable(raw)
D == install_match(raw).ok
F == script_match(raw).ok

\* The function has returned, and where from: without analysis, or after
\* the analysis was run in this process, could not be launched, or was run
\* by a child.
Returned == pc \in {"return222", "return243", "return257", "return280"}
Analysed == pc \in {"return243", "return257", "return280"}

\* An error of the class is in the list.
HasErr(errs, type) == \E i \in 1..Len(errs) : errs[i].type = type

\* Every error of the list early is in the list late.
Keeps(early, late) ==
    \A i \in 1..Len(early) : \E j \in 1..Len(late) : late[j] = early[i]

\* C25: analysis is performed exactly when D or (X and F); it uses the
\* version of the directory whenever D holds and that of the #! line only
\* when X, F and not D; in every other case the function returns no
\* dependencies and runs no analysis.
C25_DecisionTable ==
    Returned =>
        /\ Analysed <=> (D \/ (X /\ F))
        /\ D => out.analysis = IntVersion(install_match(raw))
        /\ X /\ F /\ ~D => out.analysis = IntVersion(script_match(raw))
        /\ ~(D \/ (X /\ F)) =>
               /\ pc = "return222" /\ out.analysis = <<>>
               /\ out.ret.deps = <<>>

\* An executable file whose directory and #! line name different versions
\* has been analysed with the version of the directory.
C25_Witness ==
    /\ Analysed /\ X /\ D /\ F
    /\ IntVersion(install_match(raw)) # IntVersion(script_match(raw))
    /\ out.analysis = IntVersion(install_match(raw))

\* C26: PythonMismatchedVersion is reported exactly when the file is
\* executable and D and F hold with different versions,
\* PythonUnspecifiedVersion exactly when the file is executable and neither
\* D nor F holds, and neither for a file that is not executable.
C26_VersionErrors ==
    Returned =>
        /\ HasErr(out.ret.errs, "PythonMismatchedVersion") <=>
               /\ X /\ D /\ F
               /\ VersionText(install_match(raw))
                      # VersionText(script_match(raw))
        /\ HasErr(out.ret.errs, "PythonUnspecifiedVersion") <=>
               (X /\ ~D /\ ~F)
        /\ ~X => /\ ~HasErr(out.ret.errs, "PythonMismatchedVersion")
                 /\ ~HasErr(out.ret.errs, "PythonUnspecifiedVersion")

\* C30: every error recorded before the analysis step is in the error list
\* the function returns, on every return path.
C30_KeepsEarlierErrors ==
    Returned => Keeps(version_errs(X, install_match(raw), script_match(raw)),
                      out.ret.errs)

==========================================================================
